---- MODULE Spec2Model ----
(***************************************************************************)
(* Reactivity engine of the repository: Observer / defineReactive / Dep    *)
(* (observer/index.js, observer/dep.js), Watcher (observer/watcher.js),    *)
(* the scheduler (observer/scheduler.js), nextTick (util/next-tick.js)     *)
(* and the computed getter (instance/state.js).                            *)
(*                                                                         *)
(* JavaScript runs handlers to completion on one thread.  A handler is a   *)
(* state transformer over the record S of the whole program state; the     *)
(* operators below carry the names of the functions they are translated    *)
(* from.  The flush loop of the scheduler and the drain loop of nextTick   *)
(* advance one iteration per step, so that the states between two watcher  *)
(* runs are visible.                                                       *)
(***************************************************************************)
EXTENDS Integers, Sequences, FiniteSets, TLC

VARIABLES
  heap,          \* objects of the JS heap: kind, __ob__, own properties, elements
  observers,     \* every Observer instance ever constructed, in construction order
  shouldObserve, \* observer/index.js: export let shouldObserve
  depUid,        \* observer/dep.js: let uid
  subs,          \* Dep.subs, by dep id
  target,        \* Dep.target (0 = null / undefined)
  targetStack,   \* observer/dep.js: const targetStack
  wuid,          \* observer/watcher.js: let uid
  watchers,      \* the Watcher instances, by id
  vmWatchers,    \* vm._watchers
  queue,         \* scheduler.js: const queue
  has,           \* scheduler.js: let has
  circular,      \* scheduler.js: let circular
  waiting,       \* scheduler.js: let waiting
  flushing,      \* scheduler.js: let flushing
  index,         \* scheduler.js: let index
  callbacks,     \* next-tick.js: const callbacks
  pending,       \* next-tick.js: let pending
  timers,        \* number of flushCallbacks tasks handed to the platform by timerFunc
  copies,        \* next-tick.js flushCallbacks: the part of `copies` not yet called
  async,         \* config.async
  cbw,           \* the field each user watcher's callback writes ("none": no write)
  pc,            \* position of the running task: idle / drain / flush / post / notify
  caller,        \* who called flushSchedulerQueue: "drain" (nextTick) or "notify" (config.async false)
  notifyRest,    \* Dep.notify loop suspended by a synchronous flush: the subs still to update
  runLog,        \* history: ids passed to watcher.run() by the current flush, in order
  initialQ,      \* history: the watchers in the queue when the current flush began
  touched,       \* history: per watcher, the deps whose depend() ran in its latest get()
  evald,         \* history: the getter evaluations made by the latest step, in order
  cbd,           \* history: watchers whose callback was invoked by the latest step
  enqd,          \* history: watchers put in the queue by the latest step
  ticks,         \* history: nextTick(flushSchedulerQueue) calls made by the latest step
  updd,          \* history: watchers whose update() was called by the latest step
  reads,         \* history: reads of the computed property made by the latest step
  notified,      \* history: the Deps whose notify() the latest step called, in order
  obsd,          \* history: the values the latest step passed to observe()
  ret,           \* history: what the library call made by the latest step returned
  nops,          \* history: number of operations user code has made on the containers
  throws,        \* the watchers whose getter (get) and whose callback (cb) throw, and those
                 \* created without options.user (plain)
  handled,       \* history: the handleError calls of the latest step, in order
  exc,           \* the latest step ended with an exception that nothing caught
  dom,           \* the real DOM: the child nodes of every node, in order
  elmKey,        \* the real DOM: the key of the vnode each element was created for
  nextElm,       \* the next node document.createElement returns
  domLog,        \* history: the creations, removals and moves made on the real DOM
  threw,         \* a DOM call of the patch has thrown
  oldCh,         \* updateChildren of the patched root: oldCh
  newCh,         \* updateChildren: newCh
  oldStartIdx,   \* updateChildren: oldStartIdx
  oldEndIdx,     \* updateChildren: oldEndIdx
  newStartIdx,   \* updateChildren: newStartIdx
  newEndIdx,     \* updateChildren: newEndIdx
  oldKeyToIdx,   \* updateChildren: oldKeyToIdx (<< >> while undefined)
  removeOnly,    \* the removeOnly argument of patch
  dpc,           \* position of the patch: off / loop (in updateChildren's while) / done
  removal,       \* removeAndInvokeRemoveHook of one vnode: the rm callback and who holds it
  tick,          \* history of nextTick: flushCallbacks calls begun, callbacks registered and run
  hk,            \* scheduler.js activatedChildren, the post-flush hook passes and the components
  rd,            \* the component's render: currentRenderingInstance, vm._vnode, the latest _render
  hy,            \* patch.js hydrationBailed and the diagnostics of the hydrating patches
  ast,           \* the compiler's AST of one template, before and after optimize
  cf,            \* the cache of compileToFunctions and its latest call
  tx,            \* the component with one text interpolation: its DOM, vm._vnode, the renders since a change
  rp,            \* one root patch that replaces the old root: the DOM, the vnodes, the step reached
  pz,            \* the parser inside one parent element: its children, the diagnostics, the latest close
  ph,            \* the HTML tokenizer: its open-tag stack, the callbacks emitted, the AST builder's stack
  gn,            \* the code generator: the optimized AST, the code generated, the calls made
  note           \* one call of Dep.notify: its dep, its snapshot, the update() calls made

rvars == << heap, observers, shouldObserve, depUid, subs, target, targetStack,
           wuid, watchers, vmWatchers, queue, has, circular, waiting, flushing,
           index, callbacks, pending, timers, copies, async, cbw, pc, caller,
           notifyRest, runLog, initialQ, touched, evald, cbd, enqd, ticks, updd,
           reads, notified, obsd, ret, nops, throws, handled, exc >>

dvars == << dom, elmKey, nextElm, domLog, threw, oldCh, newCh, oldStartIdx,
            oldEndIdx, newStartIdx, newEndIdx, oldKeyToIdx, removeOnly, dpc,
            removal >>

xvars == << tick, note, hk, rd, hy, ast, cf, tx, rp, pz, ph, gn >>

\* xvars without tick, without note, without hk, without rd, without hy
xTick == << note, hk, rd, hy, ast, cf, tx, rp, pz, ph, gn >>
xNote == << tick, hk, rd, hy, ast, cf, tx, rp, pz, ph, gn >>
xHk == << tick, note, rd, hy, ast, cf, tx, rp, pz, ph, gn >>
xRd == << tick, note, hk, hy, ast, cf, tx, rp, pz, ph, gn >>
xHy == << tick, note, hk, rd, ast, cf, tx, rp, pz, ph, gn >>
xAst == << tick, note, hk, rd, hy, cf, tx, rp, pz, ph, gn >>
xCf == << tick, note, hk, rd, hy, ast, tx, rp, pz, ph, gn >>
xTx == << tick, note, hk, rd, hy, ast, cf, rp, pz, ph, gn >>
xRp == << tick, note, hk, rd, hy, ast, cf, tx, pz, ph, gn >>
xPz == << tick, note, hk, rd, hy, ast, cf, tx, rp, ph, gn >>
xPh == << tick, note, hk, rd, hy, ast, cf, tx, rp, pz, gn >>
xGn == << tick, note, hk, rd, hy, ast, cf, tx, rp, pz, ph >>

vars == << rvars, dvars, xvars >>

\* no callback has been given to nextTick
TickOff == [ drains |-> 0, reg |-> << >>, ran |-> << >>, timerAt |-> << >> ]

\* Dep.notify is not running
NoteOff == [ at |-> "off" ]

\* no component has been activated and no post-flush hook has been called
HkOff ==
  [ activatedChildren |-> << >>, activatedQueue |-> << >>, updatedQueue |-> << >>,
    i |-> 0, render |-> {}, mounted |-> {}, destroyed |-> {},
    log |-> << >>, enq |-> << >>, passes |-> 0 ]

\* the component has not rendered: vm._vnode is null (src "none")
RdOff ==
  [ vnode |-> [ src |-> "none" ], prev |-> [ src |-> "none" ], current |-> 0,
    exc |-> FALSE, handled |-> << >>, threw |-> FALSE, renderError |-> "none",
    hasRenderError |-> FALSE, before |-> [ src |-> "none" ],
    domBefore |-> << >>, renders |-> 0 ]

\* createPatchFunction has returned patch: hydrationBailed = false
HyOff ==
  [ bailed |-> FALSE, log |-> << >>, ret |-> TRUE, failed |-> 0, first |-> << >>,
    patches |-> 0, elm |-> << >>, vnode |-> << >> ]

\* no template has been parsed
AstOff == [ at |-> "off" ]

\* compileToFunctions has not been called: its cache is empty
CfOff ==
  [ cache |-> << >>, template |-> "none", log |-> << >>, ret |-> "none",
    hit |-> FALSE, threw |-> FALSE, calls |-> 0 ]

\* no component with a text interpolation is mounted
TxOff == [ at |-> "off" ]

\* no root is being replaced
RpOff == [ at |-> "off" ]

\* the parser has not entered the parent element
PzOff == [ at |-> "off" ]

\* parseHTML has not been called
PhOff == [ at |-> "off" ]

\* generate has not been called
GnOff == [ at |-> "off" ]

\* the parts of the program outside the reactivity engine and the patch are
\* in their state after construction
XOff ==
  /\ tick = TickOff /\ note = NoteOff /\ hk = HkOff /\ rd = RdOff /\ hy = HyOff
  /\ ast = AstOff /\ cf = CfOff /\ tx = TxOff /\ rp = RpOff /\ pz = PzOff /\ ph = PhOff /\ gn = GnOff

\* no vnode is being removed
RmOff == [ at |-> "off" ]

\* no patch is running and no real DOM exists
DiffOff ==
  /\ dom = << >> /\ elmKey = << >> /\ nextElm = 0 /\ domLog = << >>
  /\ threw = FALSE /\ oldCh = << >> /\ newCh = << >>
  /\ oldStartIdx = 0 /\ oldEndIdx = 0 /\ newStartIdx = 0 /\ newEndIdx = 0
  /\ oldKeyToIdx = << >> /\ removeOnly = FALSE /\ dpc = "off"
  /\ removal = RmOff

(***************************************************************************)
(* Bounds of the model and constants of the program.                       *)
(***************************************************************************)
NObj == 3
MaxFlushSteps == 206
MaxTorn == 1
MAX_UPDATE_COUNT == 100

W == 1..4
ObjIds == 1..NObj
Keys == {"flag", "a", "b"}
KeyOrder == << "flag", "a", "b" >>

\* JS values: primitives are small naturals, undefined is -1, a reference to
\* heap object o is 100 + o.
undefined == 0 - 1
null == 0 - 2
Ref(o) == 100 + o
IsRef(v) == v > 100
ObjOf(v) == v - 100

\* what a call returns: a value, or a new array holding the values vals
Scalar(v) == [ fresh |-> FALSE, vals |-> << v >> ]
FreshArray(vals) == [ fresh |-> TRUE, vals |-> vals ]

(***************************************************************************)
(* The whole program state as one record.                                  *)
(***************************************************************************)
St ==
  [ heap |-> heap, observers |-> observers, shouldObserve |-> shouldObserve,
    depUid |-> depUid, subs |-> subs, target |-> target,
    targetStack |-> targetStack, wuid |-> wuid, watchers |-> watchers,
    vmWatchers |-> vmWatchers, queue |-> queue, has |-> has,
    circular |-> circular, waiting |-> waiting, flushing |-> flushing,
    index |-> index, callbacks |-> callbacks, pending |-> pending,
    timers |-> timers, copies |-> copies, async |-> async, cbw |-> cbw,
    pc |-> pc, caller |-> caller, notifyRest |-> notifyRest,
    runLog |-> runLog, initialQ |-> initialQ, touched |-> touched,
    evald |-> << >>, cbd |-> {}, enqd |-> << >>, ticks |-> 0, updd |-> {},
    reads |-> 0, notified |-> << >>, obsd |-> {}, ret |-> Scalar(undefined),
    nops |-> nops, throws |-> throws, handled |-> << >>, exc |-> FALSE ]

CommitState(S) ==
  /\ heap' = S.heap /\ observers' = S.observers
  /\ shouldObserve' = S.shouldObserve /\ depUid' = S.depUid
  /\ subs' = S.subs /\ target' = S.target /\ targetStack' = S.targetStack
  /\ wuid' = S.wuid /\ watchers' = S.watchers /\ vmWatchers' = S.vmWatchers
  /\ queue' = S.queue /\ has' = S.has /\ circular' = S.circular
  /\ waiting' = S.waiting /\ flushing' = S.flushing /\ index' = S.index
  /\ callbacks' = S.callbacks /\ pending' = S.pending /\ timers' = S.timers
  /\ copies' = S.copies /\ async' = S.async /\ cbw' = S.cbw /\ pc' = S.pc
  /\ caller' = S.caller /\ notifyRest' = S.notifyRest
  /\ runLog' = S.runLog /\ initialQ' = S.initialQ /\ touched' = S.touched
  /\ evald' = S.evald /\ cbd' = S.cbd /\ enqd' = S.enqd /\ ticks' = S.ticks
  /\ updd' = S.updd /\ reads' = S.reads /\ notified' = S.notified
  /\ obsd' = S.obsd /\ ret' = S.ret /\ nops' = S.nops
  /\ throws' = S.throws /\ handled' = S.handled /\ exc' = S.exc

Commit(S) == CommitState(S) /\ UNCHANGED << dvars, xvars >>

HoldsState(S) ==
  /\ heap = S.heap /\ observers = S.observers
  /\ shouldObserve = S.shouldObserve /\ depUid = S.depUid
  /\ subs = S.subs /\ target = S.target /\ targetStack = S.targetStack
  /\ wuid = S.wuid /\ watchers = S.watchers /\ vmWatchers = S.vmWatchers
  /\ queue = S.queue /\ has = S.has /\ circular = S.circular
  /\ waiting = S.waiting /\ flushing = S.flushing /\ index = S.index
  /\ callbacks = S.callbacks /\ pending = S.pending /\ timers = S.timers
  /\ copies = S.copies /\ async = S.async /\ cbw = S.cbw /\ pc = S.pc
  /\ caller = S.caller /\ notifyRest = S.notifyRest
  /\ runLog = S.runLog /\ initialQ = S.initialQ /\ touched = S.touched
  /\ evald = S.evald /\ cbd = S.cbd /\ enqd = S.enqd /\ ticks = S.ticks
  /\ updd = S.updd /\ reads = S.reads /\ notified = S.notified
  /\ obsd = S.obsd /\ ret = S.ret /\ nops = S.nops
  /\ throws = S.throws /\ handled = S.handled /\ exc = S.exc

Holds(S) == HoldsState(S) /\ DiffOff /\ XOff

(***************************************************************************)
(* shared/util.js helpers.                                                 *)
(***************************************************************************)
\* remove(arr, item): splices out the first occurrence of item
remove(arr, item) ==
  IF \E i \in 1..Len(arr) : arr[i] = item
  THEN LET i == CHOOSE j \in 1..Len(arr) :
                  /\ arr[j] = item
                  /\ \A k \in 1..(j - 1) : arr[k] # item
       IN SubSeq(arr, 1, i - 1) \o SubSeq(arr, i + 1, Len(arr))
  ELSE arr

\* arr.splice(pos, 0, item) with a 0-based position
InsertAt(arr, pos, item) ==
  SubSeq(arr, 1, pos) \o << item >> \o SubSeq(arr, pos + 1, Len(arr))

\* Array.prototype.sort((a, b) => a.id - b.id) on a list of watcher ids (stable)
RECURSIVE SortById(_)
SortById(arr) ==
  IF Len(arr) <= 1 THEN arr
  ELSE LET rest == SortById(SubSeq(arr, 1, Len(arr) - 1))
           x == arr[Len(arr)]
           k == Cardinality({ i \in 1..Len(rest) : rest[i] <= x })
       IN InsertAt(rest, k, x)

(***************************************************************************)
(* observer/dep.js                                                         *)
(***************************************************************************)
\* new Dep(): id = uid++, subs = []
NewDep(S) ==
  [ S EXCEPT !.depUid = @ + 1,
             !.subs = [ i \in 0..S.depUid |->
                          IF i < S.depUid THEN S.subs[i] ELSE << >> ] ]

Dep_addSub(S, d, w) == [ S EXCEPT !.subs[d] = Append(@, w) ]

Dep_removeSub(S, d, w) == [ S EXCEPT !.subs[d] = remove(@, w) ]

pushTarget(S, t) ==
  [ S EXCEPT !.targetStack = Append(@, t), !.target = t ]

popTarget(S) ==
  LET st == SubSeq(S.targetStack, 1, Len(S.targetStack) - 1)
  IN [ S EXCEPT !.targetStack = st,
                !.target = IF st = << >> THEN 0 ELSE st[Len(st)] ]

(***************************************************************************)
(* observer/watcher.js: dependency collection                              *)
(***************************************************************************)
\* addDep that subscribes on every call, whether or not the dep is already held
Watcher_addDepAlways(S, w, d) ==
  Dep_addSub([ S EXCEPT !.watchers[w].newDepIds = @ \cup {d},
                        !.watchers[w].newDeps = Append(@, d) ], d, w)

Watcher_addDep(S, w, d) ==
  IF d \notin S.watchers[w].newDepIds
  THEN LET S1 == [ S EXCEPT !.watchers[w].newDepIds = @ \cup {d},
                            !.watchers[w].newDeps = Append(@, d) ]
       IN IF d \notin S.watchers[w].depIds THEN Dep_addSub(S1, d, w) ELSE S1
  ELSE S

\* Dep.prototype.depend
Dep_depend(S, d) ==
  IF S.target # 0
  THEN Watcher_addDep([ S EXCEPT !.touched[S.target] = @ \cup {d} ], S.target, d)
  ELSE S

\* the while (i--) loop of cleanupDeps, at position i
RECURSIVE CleanupLoop(_, _, _)
CleanupLoop(S, w, i) ==
  IF i = 0 THEN S
  ELSE LET dep == S.watchers[w].deps[i]
           S1 == IF dep \notin S.watchers[w].newDepIds
                 THEN Dep_removeSub(S, dep, w) ELSE S
       IN CleanupLoop(S1, w, i - 1)

\* cleanupDeps that swaps the lists without unsubscribing from the deps no longer read
Watcher_cleanupDepsKeep(S, w) ==
  [ S EXCEPT !.watchers[w].depIds = S.watchers[w].newDepIds,
             !.watchers[w].newDepIds = {},
             !.watchers[w].deps = S.watchers[w].newDeps,
             !.watchers[w].newDeps = << >> ]

Watcher_cleanupDeps(S, w) ==
  LET S1 == CleanupLoop(S, w, Len(S.watchers[w].deps))
  IN [ S1 EXCEPT !.watchers[w].depIds = S1.watchers[w].newDepIds,
                 !.watchers[w].newDepIds = {},
                 !.watchers[w].deps = S1.watchers[w].newDeps,
                 !.watchers[w].newDeps = << >> ]

\* Watcher.prototype.depend: the while (i--) loop at position i
RECURSIVE DependLoop(_, _, _)
DependLoop(S, w, i) ==
  IF i = 0 THEN S
  ELSE DependLoop(Dep_depend(S, S.watchers[w].deps[i]), w, i - 1)

Watcher_depend(S, w) == DependLoop(S, w, Len(S.watchers[w].deps))

\* the while (i--) loop of teardown, at position i
RECURSIVE TeardownLoop(_, _, _)
TeardownLoop(S, w, i) ==
  IF i = 0 THEN S
  ELSE TeardownLoop(Dep_removeSub(S, S.watchers[w].deps[i], w), w, i - 1)

Watcher_teardown(S, w) ==
  IF S.watchers[w].active
  THEN LET S1 == [ S EXCEPT !.vmWatchers = remove(@, w) ]
           S2 == TeardownLoop(S1, w, Len(S1.watchers[w].deps))
       IN [ S2 EXCEPT !.watchers[w].active = FALSE ]
  ELSE S

(***************************************************************************)
(* The program that uses the library: one component whose data object has  *)
(* the fields flag, a and b, and four watchers created in this order.      *)
(*   1  user watcher, getter  flag ? a : b, callback writes field cbw[1]   *)
(*   2  computed (lazy) watcher, getter  a                                 *)
(*   3  user watcher, getter  b, callback writes field cbw[3]              *)
(*   4  sync user watcher, getter reads the computed property of watcher 2 *)
(***************************************************************************)
Data == 1
Computed == 2
WLazy(w) == w = 2
WSync(w) == w = 4
\* this.user: the watchers made by vm.$watch (the computed watcher is not)
WUser(w) == ~WLazy(w)
\* this.user in state S: some programs create a queued watcher without options.user
WUserIn(S, w) == WUser(w) /\ w \notin S.throws.plain
\* update() hands watcher w to the scheduler (neither lazy nor sync)
Queued(w) == ~WLazy(w) /\ ~WSync(w)
isProduction == FALSE
isServerRendering == FALSE
NaN == 99

\* a === b
StrictEq(x, y) == x = y /\ x # NaN

NoSlot ==
  [ own |-> FALSE, val |-> undefined, reactive |-> FALSE, dep |-> undefined,
    childOb |-> 0, shallow |-> FALSE, configurable |-> TRUE ]

PlainSlot(v) == [ NoSlot EXCEPT !.own = TRUE, !.val = v ]

EmptyObject ==
  [ kind |-> "object", ob |-> 0, props |-> [ k \in Keys |-> NoSlot ],
    elems |-> << >>, extensible |-> TRUE, isVue |-> FALSE ]

isArray(S, v) == IsRef(v) /\ S.heap[ObjOf(v)].kind = "array"
isPlainObject(S, v) == IsRef(v) /\ S.heap[ObjOf(v)].kind = "object"

(***************************************************************************)
(* util/next-tick.js                                                       *)
(***************************************************************************)
\* flushCallbacks that leaves pending set
flushCallbacksPending(S) ==
  [ S EXCEPT !.copies = S.callbacks, !.callbacks = << >>, !.pc = "drain" ]

\* flushCallbacks up to its for loop
flushCallbacks(S) ==
  [ S EXCEPT !.pending = FALSE, !.copies = S.callbacks, !.callbacks = << >>,
             !.pc = "drain" ]

nextTick(S, cb) ==
  LET S1 == [ S EXCEPT !.callbacks = Append(@, cb),
                       !.ticks = IF cb = "flush" THEN @ + 1 ELSE @ ]
  IN IF ~S1.pending
     THEN [ S1 EXCEPT !.pending = TRUE, !.timers = @ + 1 ]
     ELSE S1

(***************************************************************************)
(* observer/scheduler.js                                                   *)
(***************************************************************************)
resetSchedulerState(S) ==
  [ S EXCEPT !.index = 0, !.queue = << >>,
             !.has = [ w \in W |-> "undefined" ],
             !.circular = [ w \in W |-> 0 ],
             !.waiting = FALSE, !.flushing = FALSE ]

\* flushSchedulerQueue entered without sorting the queue
FlushBeginUnsorted(S, who) ==
  [ S EXCEPT !.flushing = TRUE, !.index = 0,
             !.pc = IF Len(S.queue) > 0 THEN "flush" ELSE "post",
             !.caller = who, !.runLog = << >>,
             !.initialQ = { S.queue[i] : i \in 1..Len(S.queue) } ]

\* flushSchedulerQueue up to the first test of its for loop
FlushBegin(S, who) ==
  LET q == SortById(S.queue)
  IN [ S EXCEPT !.flushing = TRUE, !.queue = q, !.index = 0,
                !.pc = IF Len(q) > 0 THEN "flush" ELSE "post",
                !.caller = who, !.runLog = << >>,
                !.initialQ = { q[i] : i \in 1..Len(q) } ]

\* queueWatcher: the position i reached by  while (i > index && queue[i].id > watcher.id) i--
RECURSIVE SplicePos(_, _, _)
SplicePos(S, w, i) ==
  IF i > S.index /\ S.queue[i + 1] > w THEN SplicePos(S, w, i - 1) ELSE i

\* queueWatcher without the has[id] test: every update() queues the watcher again
queueWatcherNoDedup(S, w) ==
  LET S1 == [ S EXCEPT !.has[w] = "true", !.enqd = Append(@, w) ]
      S2 == IF ~S1.flushing
            THEN [ S1 EXCEPT !.queue = Append(@, w) ]
            ELSE [ S1 EXCEPT !.queue =
                     InsertAt(@, SplicePos(S1, w, Len(S1.queue) - 1) + 1, w) ]
  IN IF ~S2.waiting
     THEN LET S3 == [ S2 EXCEPT !.waiting = TRUE ]
          IN IF ~isProduction /\ ~S3.async
             THEN FlushBegin(S3, "notify")
             ELSE nextTick(S3, "flush")
     ELSE S2

\* queueWatcher without the waiting test: every enqueue schedules a flush
queueWatcherNoWaiting(S, w) ==
  IF S.has[w] \in {"undefined", "null"}
  THEN LET S1 == [ S EXCEPT !.has[w] = "true", !.enqd = Append(@, w) ]
           S2 == IF ~S1.flushing
                 THEN [ S1 EXCEPT !.queue = Append(@, w) ]
                 ELSE [ S1 EXCEPT !.queue =
                          InsertAt(@, SplicePos(S1, w, Len(S1.queue) - 1) + 1, w) ]
           S3 == [ S2 EXCEPT !.waiting = TRUE ]
       IN IF ~isProduction /\ ~S3.async
          THEN FlushBegin(S3, "notify")
          ELSE nextTick(S3, "flush")
  ELSE S

queueWatcher(S, w) ==
  IF S.has[w] \in {"undefined", "null"}
  THEN LET S1 == [ S EXCEPT !.has[w] = "true", !.enqd = Append(@, w) ]
           S2 == IF ~S1.flushing
                 THEN [ S1 EXCEPT !.queue = Append(@, w) ]
                 ELSE [ S1 EXCEPT !.queue =
                          InsertAt(@, SplicePos(S1, w, Len(S1.queue) - 1) + 1, w) ]
       IN IF ~S2.waiting
          THEN LET S3 == [ S2 EXCEPT !.waiting = TRUE ]
               IN IF ~isProduction /\ ~S3.async
                  THEN FlushBegin(S3, "notify")
                  ELSE nextTick(S3, "flush")
          ELSE S2
  ELSE S

(***************************************************************************)
(* observer/index.js and the evaluation of watchers.  These functions call *)
(* each other: a getter reads reactive properties, a callback writes them, *)
(* a write notifies, a notification updates or runs watchers.              *)
(***************************************************************************)
RECURSIVE observe(_, _, _)
RECURSIVE NewObserver(_, _)
RECURSIVE WalkLoop(_, _, _)
RECURSIVE ObserveArrayLoop(_, _, _)
RECURSIVE defineReactive(_, _, _, _, _, _)
RECURSIVE dependArray(_, _, _)
RECURSIVE reactiveSetter(_, _, _, _)
RECURSIVE Dep_notify(_, _)
RECURSIVE NotifyLoop(_, _)
RECURSIVE Watcher_update(_, _)
RECURSIVE Watcher_run(_, _)
RECURSIVE Watcher_get(_, _)
RECURSIVE Watcher_evaluate(_, _)
RECURSIVE getter(_, _)
RECURSIVE computedGetter(_, _)
RECURSIVE cb(_, _)

\* observe has been entered with this value
observe_called(S, value) == [ S EXCEPT !.obsd = @ \cup {value} ]

\* the end of observe:  if (asRootData && ob) ob.vmCount++;  return ob
observe_return(r, asRootData) ==
  IF asRootData /\ r.ob # 0
  THEN [ st |-> [ r.st EXCEPT !.observers[r.ob].vmCount = @ + 1 ],
         ob |-> r.ob ]
  ELSE r

\* observe without the test for an __ob__ the value already carries
observeAgain(S, value, asRootData) ==
  IF ~IsRef(value) \/ S.heap[ObjOf(value)].kind = "vnode"
  THEN [ st |-> observe_called(S, value), ob |-> 0 ]
  ELSE observe_return(
         IF /\ S.shouldObserve
            /\ ~isServerRendering
            /\ (isArray(S, value) \/ isPlainObject(S, value))
            /\ S.heap[ObjOf(value)].extensible
            /\ ~S.heap[ObjOf(value)].isVue
         THEN NewObserver(observe_called(S, value), ObjOf(value))
         ELSE [ st |-> observe_called(S, value), ob |-> 0 ],
         asRootData)

\* observe(value, asRootData): the state after the call and the Observer returned
\* (index in observers, 0 for undefined)
observe(S, value, asRootData) ==
  IF ~IsRef(value) \/ S.heap[ObjOf(value)].kind = "vnode"
  THEN [ st |-> observe_called(S, value), ob |-> 0 ]
  ELSE observe_return(
         IF S.heap[ObjOf(value)].ob # 0
         THEN [ st |-> observe_called(S, value), ob |-> S.heap[ObjOf(value)].ob ]
         ELSE IF /\ S.shouldObserve
                 /\ ~isServerRendering
                 /\ (isArray(S, value) \/ isPlainObject(S, value))
                 /\ S.heap[ObjOf(value)].extensible
                 /\ ~S.heap[ObjOf(value)].isVue
              THEN NewObserver(observe_called(S, value), ObjOf(value))
              ELSE [ st |-> observe_called(S, value), ob |-> 0 ],
         asRootData)

\* new Observer(value)
NewObserver(S, o) ==
  LET S1 == NewDep(S)
      me == Len(S.observers) + 1
      S2 == [ S1 EXCEPT !.observers =
                           Append(@, [ value |-> o, dep |-> S.depUid, vmCount |-> 0 ]),
                        !.heap[o].ob = me ]
  IN [ st |-> IF S.heap[o].kind = "array"
              THEN ObserveArrayLoop(S2, S.heap[o].elems, 1)
              ELSE WalkLoop(S2, o, SelectSeq(KeyOrder, LAMBDA k : S.heap[o].props[k].own)),
       ob |-> me ]

\* Observer.walk: the loop over the remaining keys
WalkLoop(S, o, keys) ==
  IF keys = << >> THEN S
  ELSE WalkLoop(defineReactive(S, o, Head(keys), undefined, TRUE, FALSE), o, Tail(keys))

\* Observer.observeArray(items): the loop at position i (1-based)
ObserveArrayLoop(S, items, i) ==
  IF i > Len(items) THEN S
  ELSE ObserveArrayLoop(observe(S, items[i], FALSE).st, items, i + 1)

\* the Object.defineProperty call of defineReactive; r is the result of
\* childOb = !shallow && observe(val)
defineReactive_define(r, o, key, v, dep, shallow) ==
  [ r.st EXCEPT !.heap[o].props[key] =
      [ own |-> TRUE, val |-> v, reactive |-> TRUE, dep |-> dep,
        childOb |-> r.ob, shallow |-> shallow, configurable |-> TRUE ] ]

\* defineReactive(obj, key, val, customSetter, shallow); twoArgs: arguments.length === 2
defineReactive(S, o, key, val, twoArgs, shallow) ==
  LET S1 == NewDep(S)
      property == S.heap[o].props[key]
      v == IF twoArgs THEN property.val ELSE val
  IN IF property.own /\ ~property.configurable
     THEN S1
     ELSE defineReactive_define(
            IF ~shallow THEN observe(S1, v, FALSE) ELSE [ st |-> S1, ob |-> 0 ],
            o, key, v, S.depUid, shallow)

\* dependArray(value): the loop at position i (1-based)
dependArray(S, arr, i) ==
  IF i > Len(S.heap[arr].elems) THEN S
  ELSE LET e == S.heap[arr].elems[i]
           S1 == IF IsRef(e) /\ S.heap[ObjOf(e)].ob # 0
                 THEN Dep_depend(S, S.observers[S.heap[ObjOf(e)].ob].dep)
                 ELSE S
       IN dependArray(IF isArray(S, e) THEN dependArray(S1, ObjOf(e), 1) ELSE S1,
                      arr, i + 1)

\* reactiveGetter that registers with the property's own dep only
reactiveGetterOwnDep(S, o, key) ==
  IF S.target # 0 THEN Dep_depend(S, S.heap[o].props[key].dep) ELSE S

\* reactiveGetter of property key of object o; the value returned is the slot's val
reactiveGetter(S, o, key) ==
  LET p == S.heap[o].props[key]
      S1 == Dep_depend(S, p.dep)
      S2 == Dep_depend(S1, S.observers[p.childOb].dep)
  IN IF S.target # 0
     THEN IF p.childOb # 0
          THEN IF isArray(S, p.val) THEN dependArray(S2, ObjOf(p.val), 1) ELSE S2
          ELSE S1
     ELSE S

\* reading obj[key]
GetProp(S, o, key) ==
  IF S.heap[o].props[key].reactive THEN reactiveGetter(S, o, key) ELSE S

\* the end of reactiveSetter: the new childOb is kept and dep.notify() called; r
\* is the result of  !shallow && observe(newVal)
reactiveSetter_notify(r, o, key, dep) ==
  Dep_notify([ r.st EXCEPT !.heap[o].props[key].childOb = r.ob ], dep)

\* reactiveSetter that compares with === only
reactiveSetterStrictOnly(S, o, key, newVal) ==
  LET p == S.heap[o].props[key]
      S1 == [ S EXCEPT !.heap[o].props[key].val = newVal ]
  IN IF StrictEq(newVal, p.val)
     THEN S
     ELSE reactiveSetter_notify(
            IF ~p.shallow THEN observe(S1, newVal, FALSE) ELSE [ st |-> S1, ob |-> 0 ],
            o, key, p.dep)

\* reactiveSetter of property key of object o
reactiveSetter(S, o, key, newVal) ==
  LET p == S.heap[o].props[key]
      value == p.val
      S1 == [ S EXCEPT !.heap[o].props[key].val = newVal ]
  IN IF StrictEq(newVal, value) \/ (~StrictEq(newVal, newVal) /\ ~StrictEq(value, value))
     THEN S
     ELSE reactiveSetter_notify(
            IF ~p.shallow THEN observe(S1, newVal, FALSE) ELSE [ st |-> S1, ob |-> 0 ],
            o, key, p.dep)

\* notify that never sorts its copy of subs
NotifySubsUnsorted(S, d) == S.subs[d]

\* notify: const subs = this.subs.slice(), sorted by id in a development
\* build when config.async is false
NotifySubs(S, d) ==
  IF ~isProduction /\ ~S.async THEN SortById(S.subs[d]) ELSE S.subs[d]

\* Dep.prototype.notify
Dep_notify(S, d) ==
  NotifyLoop([ S EXCEPT !.notified = Append(@, d) ], NotifySubs(S, d))

\* ob.dep.notify() of Observer ob
Observer_notify(S, ob) == Dep_notify(S, S.observers[ob].dep)

\* the for loop of notify after subs[i].update() has taken S to S1.  When update()
\* started a synchronous flush (config.async false), the loop is suspended until
\* the flush ends.
NotifyLoop_next(S, S1, rest) ==
  IF S1.pc = "flush" /\ S.pc # "flush"
  THEN [ S1 EXCEPT !.notifyRest = Tail(rest) ]
  ELSE NotifyLoop(S1, Tail(rest))

\* the for loop of notify over the subs still to update
NotifyLoop(S, rest) ==
  IF rest = << >> THEN S
  ELSE NotifyLoop_next(S, Watcher_update(S, Head(rest)), rest)

Watcher_update(S, w) ==
  LET S1 == [ S EXCEPT !.updd = @ \cup {w} ]
  IN IF WLazy(w) THEN [ S1 EXCEPT !.watchers[w].dirty = TRUE ]
     ELSE IF WSync(w) THEN Watcher_run(S1, w)
     ELSE queueWatcher(S1, w)

\* util/error.js handleError(e, vm, info): the error goes to the handler
handleError(S, w, info) ==
  [ S EXCEPT !.exc = FALSE, !.handled = Append(@, << w, info >>) ]

\* util/error.js invokeWithErrorHandling(handler, ...), S the state the handler
\* left
invokeWithErrorHandling(S, w) ==
  IF S.exc THEN handleError(S, w, "callback") ELSE S

\* run: the call of this.cb
Watcher_run_invoke(S, w) ==
  IF WUserIn(S, w) THEN invokeWithErrorHandling(cb(S, w), w) ELSE cb(S, w)

\* run after  const value = this.get() : r is the state and the value; an
\* exception that get() let through leaves run at once
Watcher_run_cb(r, w) ==
  IF r.st.exc THEN r.st
  ELSE IF ~StrictEq(r.value, r.st.watchers[w].value) \/ IsRef(r.value)
  THEN Watcher_run_invoke([ r.st EXCEPT !.watchers[w].value = r.value ], w)
  ELSE r.st

\* run without the test of this.active
Watcher_runInactive(S, w) == Watcher_run_cb(Watcher_get(S, w), w)

Watcher_run(S, w) ==
  IF S.watchers[w].active THEN Watcher_run_cb(Watcher_get(S, w), w) ELSE S

\* get with popTarget() and cleanupDeps() after the try statement instead of
\* in its finally block
Watcher_get_noFinally(r, w) ==
  IF r.st.exc THEN r
  ELSE [ st |-> Watcher_cleanupDeps(popTarget(r.st), w), value |-> r.value ]

\* the finally block of get: popTarget(); this.cleanupDeps(); and the return
Watcher_get_finally(r, w) ==
  [ st |-> Watcher_cleanupDeps(popTarget(r.st), w), value |-> r.value ]

\* a catch block of get that throws every error again
Watcher_get_rethrow(r, w) == r

\* the catch block of get: r is what the getter left
Watcher_get_catch(r, w) ==
  IF r.st.exc /\ WUserIn(r.st, w)
  THEN [ st |-> handleError(r.st, w, "getter"), value |-> r.value ]
  ELSE r

\* Watcher.prototype.get: the state after the call and the value returned
Watcher_get(S, w) ==
  Watcher_get_finally(
    Watcher_get_catch(
      getter(pushTarget([ S EXCEPT !.touched[w] = {}, !.evald = Append(@, w) ], w), w),
      w),
    w)

\* evaluate after this.get()
Watcher_evaluate_set(r, w) ==
  [ r.st EXCEPT !.watchers[w].value = r.value, !.watchers[w].dirty = FALSE ]

Watcher_evaluate(S, w) == Watcher_evaluate_set(Watcher_get(S, w), w)

\* computedGetter:  return watcher.value
computedGetter_return(S, cw) == [ st |-> S, value |-> S.watchers[cw].value ]

\* computedGetter:  if (Dep.target) watcher.depend()  and the return
computedGetter_depend(S, cw) ==
  computedGetter_return(IF S.target # 0 THEN Watcher_depend(S, cw) ELSE S, cw)

\* computedGetter that evaluates on every read, whatever watcher.dirty says
computedGetterUncached(S, cw) ==
  IF S.watchers[cw].created
  THEN computedGetter_depend(Watcher_evaluate([ S EXCEPT !.reads = @ + 1 ], cw), cw)
  ELSE [ st |-> S, value |-> undefined ]

\* instance/state.js createComputedGetter: computedGetter of the property of watcher cw
computedGetter(S, cw) ==
  IF S.watchers[cw].created
  THEN computedGetter_depend(
         IF S.watchers[cw].dirty
         THEN Watcher_evaluate([ S EXCEPT !.reads = @ + 1 ], cw)
         ELSE [ S EXCEPT !.reads = @ + 1 ],
         cw)
  ELSE [ st |-> S, value |-> undefined ]

\* the getter of a watcher in throws.get throws after its reads (that of a
\* watcher without options.user only when it has read 1): value is
\* never assigned
getter_throw(r, w) ==
  IF w \in r.st.throws.get /\ (w \in r.st.throws.plain => r.value = 1)
  THEN [ st |-> [ r.st EXCEPT !.exc = TRUE ], value |-> undefined ]
  ELSE r

\* the reads the getter of watcher w makes and the value it computes
getter_reads(S, w) ==
  CASE w = 1 ->
         LET k == IF S.heap[Data].props["flag"].val = 1 THEN "a" ELSE "b"
         IN [ st |-> GetProp(GetProp(S, Data, "flag"), Data, k),
              value |-> S.heap[Data].props[k].val ]
    [] w = 2 ->
         [ st |-> GetProp(S, Data, "a"), value |-> S.heap[Data].props["a"].val ]
    [] w = 3 ->
         [ st |-> GetProp(S, Data, "b"), value |-> S.heap[Data].props["b"].val ]
    [] OTHER -> computedGetter(S, Computed)

\* this.getter.call(vm, vm) of watcher w
getter(S, w) == getter_throw(getter_reads(S, w), w)

\* this.cb of watcher w
cb(S, w) ==
  LET S1 == [ S EXCEPT !.cbd = @ \cup {w} ]
  IN IF w \in S.throws.cb THEN [ S1 EXCEPT !.exc = TRUE ]
     ELSE IF WSync(w) \/ WLazy(w) \/ S.cbw[w] = "none"
     THEN S1
     ELSE reactiveSetter(S1, Data, S.cbw[w], 1 - S.heap[Data].props[S.cbw[w]].val)

\* instance/state.js getData: data.call(vm, vm), which throws or returns
getData_call(S, throwing) == IF throwing THEN [ S EXCEPT !.exc = TRUE ] ELSE S

\* getData: the catch block
getData_catch(S) == IF S.exc THEN handleError(S, 0, "data()") ELSE S

\* instance/state.js getData(data, vm): pushTarget(); try / catch; finally popTarget()
getData(S, throwing) ==
  popTarget(getData_catch(getData_call(pushTarget(S, 0), throwing)))

\* instance/state.js $watch with options.immediate, after new Watcher: the
\* callback of user watcher w is invoked with no target
watchImmediate(S, w) ==
  popTarget(invokeWithErrorHandling(cb(pushTarget(S, 0), w), w))

\* the end of the constructor:  this.value = this.lazy ? undefined : this.get()
NewWatcher_value(r, w) == [ r.st EXCEPT !.watchers[w].value = r.value ]

\* new Watcher(vm, expOrFn, cb, options)
NewWatcher(S) ==
  LET w == S.wuid + 1
      S1 == [ S EXCEPT !.vmWatchers = Append(@, w), !.wuid = w,
                       !.watchers[w] =
                         [ created |-> TRUE, active |-> TRUE, dirty |-> WLazy(w),
                           deps |-> << >>, newDeps |-> << >>, depIds |-> {},
                           newDepIds |-> {}, value |-> undefined ] ]
  IN IF WLazy(w) THEN S1 ELSE NewWatcher_value(Watcher_get(S1, w), w)

(***************************************************************************)
(* observer/array.js and set / del of observer/index.js                    *)
(***************************************************************************)
\* Array.prototype.splice(start, deleteCount, ...items) on a list
NativeSplice(elems, start, deleteCount, items) ==
  LET s == IF start > Len(elems) THEN Len(elems) ELSE start
      n == IF deleteCount > Len(elems) - s THEN Len(elems) - s ELSE deleteCount
  IN SubSeq(elems, 1, s) \o items \o SubSeq(elems, s + n + 1, Len(elems))

\* String(v) as the list of its UTF-16 code units; an array is its elements
\* joined by ",", with undefined elements giving the empty string
RECURSIVE ToStr(_, _)
RECURSIVE JoinFrom(_, _, _)
JoinFrom(S, elems, i) ==
  IF i > Len(elems) THEN << >>
  ELSE ( IF elems[i] = undefined THEN << >> ELSE ToStr(S, elems[i]) )
       \o ( IF i < Len(elems) THEN << 44 >> \o JoinFrom(S, elems, i + 1) ELSE << >> )

ToStr(S, v) ==
  IF IsRef(v)
  THEN IF S.heap[ObjOf(v)].kind = "array"
       THEN JoinFrom(S, S.heap[ObjOf(v)].elems, 1)
       ELSE << 91, 111, 98, 106, 101, 99, 116, 32, 79, 98, 106, 101, 99, 116, 93 >>
  ELSE IF v = NaN THEN << 78, 97, 78 >>
  ELSE << 48 + v >>

\* x < y for strings, by code units
RECURSIVE StrLess(_, _)
StrLess(x, y) ==
  IF y = << >> THEN FALSE
  ELSE IF x = << >> THEN TRUE
  ELSE IF Head(x) # Head(y) THEN Head(x) < Head(y)
  ELSE StrLess(Tail(x), Tail(y))

\* the default sort order: undefined last, the others by their strings
SortBefore(S, x, y) ==
  IF x = undefined THEN FALSE
  ELSE IF y = undefined THEN TRUE
  ELSE StrLess(ToStr(S, x), ToStr(S, y))

\* Array.prototype.sort() without a compare function (stable)
RECURSIVE NativeSort(_, _)
NativeSort(S, elems) ==
  IF elems = << >> THEN << >>
  ELSE LET sorted == NativeSort(S, SubSeq(elems, 1, Len(elems) - 1))
           x == elems[Len(elems)]
           keep == { i \in 1..Len(sorted) : ~SortBefore(S, x, sorted[i]) }
           n == Cardinality(keep)
       IN SubSeq(sorted, 1, n) \o << x >> \o SubSeq(sorted, n + 1, Len(sorted))

\* the native array method applied to the elements
NativeApply(S, elems, method, args) ==
  CASE method = "push" -> elems \o args
    [] method = "unshift" -> args \o elems
    [] method = "pop" -> SubSeq(elems, 1, Len(elems) - 1)
    [] method = "shift" -> SubSeq(elems, 2, Len(elems))
    [] method = "reverse" -> [ i \in 1..Len(elems) |-> elems[Len(elems) + 1 - i] ]
    [] method = "splice" -> NativeSplice(elems, args[1], args[2], SubSeq(args, 3, Len(args)))
    [] method = "sort" -> NativeSort(S, elems)
    [] OTHER -> elems

\* what the native array method returns when called on array arr with these elements
NativeResult(arr, elems, method, args) ==
  CASE method \in {"push", "unshift"} -> Scalar(Len(elems) + Len(args))
    [] method = "pop" ->
         Scalar(IF elems = << >> THEN undefined ELSE elems[Len(elems)])
    [] method = "shift" -> Scalar(IF elems = << >> THEN undefined ELSE elems[1])
    [] method = "splice" ->
         LET s == IF args[1] > Len(elems) THEN Len(elems) ELSE args[1]
             n == IF args[2] > Len(elems) - s THEN Len(elems) - s ELSE args[2]
         IN FreshArray(SubSeq(elems, s + 1, s + n))
    [] OTHER -> Scalar(Ref(arr))

\* const result = original.apply(this, args)
original_apply(S, arr, method, args) ==
  [ S EXCEPT !.heap[arr].elems = NativeApply(S, @, method, args),
             !.ret = NativeResult(arr, S.heap[arr].elems, method, args) ]

\* the arguments mutator passes to ob.observeArray
Inserted(method, args) ==
  CASE method \in {"push", "unshift"} -> args
    [] method = "splice" -> SubSeq(args, 3, Len(args))
    [] OTHER -> << >>

\* mutator that notifies only when the call inserted elements
mutatorNotifyInserted(S, arr, method, args) ==
  IF Inserted(method, args) = << >>
  THEN original_apply(S, arr, method, args)
  ELSE Observer_notify(
         ObserveArrayLoop(original_apply(S, arr, method, args),
                          Inserted(method, args), 1),
         S.heap[arr].ob)

\* mutator(...args) installed for method on observed arrays
mutator(S, arr, method, args) ==
  Observer_notify(
    ObserveArrayLoop(original_apply(S, arr, method, args), Inserted(method, args), 1),
    S.heap[arr].ob)

\* arr[method](...args): the intercepted method when the array carries an Observer
\* (protoAugment), the native one otherwise
ArrayCall(S, arr, method, args) ==
  IF S.heap[arr].ob # 0
  THEN mutator(S, arr, method, args)
  ELSE original_apply(S, arr, method, args)

\* target[key] = val on an object
PutProp(S, o, key, val) ==
  IF S.heap[o].props[key].reactive
  THEN reactiveSetter(S, o, key, val)
  ELSE IF S.heap[o].props[key].own
       THEN [ S EXCEPT !.heap[o].props[key].val = val ]
       ELSE IF S.heap[o].extensible
            THEN [ S EXCEPT !.heap[o].props[key] = PlainSlot(val) ]
            ELSE S

\* target.length = n growing the array with holes
Lengthen(elems, n) ==
  IF n > Len(elems)
  THEN elems \o [ i \in 1..(n - Len(elems)) |-> undefined ]
  ELSE elems

\* return val  of set
set_return(S, val) == [ S EXCEPT !.ret = Scalar(val) ]

\* set without the test for a component instance or root data
setUnguarded(S, o, key, val) ==
  set_return(
    IF S.heap[o].kind = "array"
    THEN ArrayCall([ S EXCEPT !.heap[o].elems = Lengthen(@, key) ],
                   o, "splice", << key, 1, val >>)
    ELSE IF S.heap[o].props[key].own
    THEN PutProp(S, o, key, val)
    ELSE IF S.heap[o].ob = 0
    THEN PutProp(S, o, key, val)
    ELSE Observer_notify(
           defineReactive(S, S.observers[S.heap[o].ob].value, key, val, FALSE, FALSE),
           S.heap[o].ob),
    val)

\* set(target, key, val); key is an index when target is an array
set(S, o, key, val) ==
  set_return(
    IF S.heap[o].kind = "array"
    THEN ArrayCall([ S EXCEPT !.heap[o].elems = Lengthen(@, key) ],
                   o, "splice", << key, 1, val >>)
    ELSE IF S.heap[o].props[key].own
    THEN PutProp(S, o, key, val)
    ELSE LET ob == S.heap[o].ob
         IN IF S.heap[o].isVue \/ (ob # 0 /\ S.observers[ob].vmCount > 0)
            THEN S
            ELSE IF ob = 0
            THEN PutProp(S, o, key, val)
            ELSE Observer_notify(
                   defineReactive(S, S.observers[ob].value, key, val, FALSE, FALSE), ob),
    val)

\* return  of del (no value)
del_return(S) == [ S EXCEPT !.ret = Scalar(undefined) ]

\* del(target, key); key is an index when target is an array
del(S, o, key) ==
  del_return(
    IF S.heap[o].kind = "array"
    THEN ArrayCall(S, o, "splice", << key, 1 >>)
    ELSE LET ob == S.heap[o].ob
         IN IF S.heap[o].isVue \/ (ob # 0 /\ S.observers[ob].vmCount > 0)
            THEN S
            ELSE IF ~S.heap[o].props[key].own
            THEN S
            ELSE LET S1 == [ S EXCEPT !.heap[o].props[key] = NoSlot ]
                 IN IF ob = 0 THEN S1 ELSE Observer_notify(S1, ob))

\* the index++ and the loop test of flushSchedulerQueue's for loop
FlushAdvance(S) ==
  [ S EXCEPT !.index = @ + 1,
             !.pc = IF S.index + 1 < Len(S.queue) THEN "flush" ELSE "post" ]

\* watcher.run() threw: the exception leaves flushSchedulerQueue.  Called by
\* flushCallbacks, the callback nextTick stored catches it; called by update()
\* (config.async false) it reaches the user code that made the change.
FlushAbort(S) ==
  IF S.caller = "drain"
  THEN [ handleError(S, 0, "nextTick") EXCEPT !.pc = "drain" ]
  ELSE [ S EXCEPT !.pc = "idle", !.notifyRest = << >> ]

\* the circular update check without its break
FlushIteration_checkNoBreak(S, id) ==
  IF S.exc THEN FlushAbort(S)
  ELSE IF ~isProduction /\ S.has[id] \notin {"undefined", "null"}
  THEN FlushAdvance([ S EXCEPT !.circular[id] = @ + 1 ])
  ELSE FlushAdvance(S)

\* an iteration of the for loop after watcher.run(): the circular update check
FlushIteration_check(S, id) ==
  IF S.exc THEN FlushAbort(S)
  ELSE IF ~isProduction /\ S.has[id] \notin {"undefined", "null"}
  THEN LET S3 == [ S EXCEPT !.circular[id] = @ + 1 ]
       IN IF S3.circular[id] > MAX_UPDATE_COUNT
          THEN [ S3 EXCEPT !.pc = "post" ]
          ELSE FlushAdvance(S3)
  ELSE FlushAdvance(S)

\* one iteration of the for loop of flushSchedulerQueue
FlushIteration(S) ==
  LET id == S.queue[S.index + 1]
  IN FlushIteration_check(
       Watcher_run([ S EXCEPT !.has[id] = "null", !.runLog = Append(@, id) ], id), id)

\* flushSchedulerQueue after its for loop, and the return to its caller
FlushFinish(S) ==
  LET S1 == resetSchedulerState(S)
  IN [ S1 EXCEPT !.pc = IF S.caller = "drain" THEN "drain"
                        ELSE IF S.notifyRest # << >> THEN "notify" ELSE "idle" ]

(***************************************************************************)
(* Initial state: the component's data object has been made reactive       *)
(* (initData: observe(data, true)); no watcher exists yet.                 *)
(***************************************************************************)
Blank(as, c1, c3) ==
  [ heap |-> [ o \in ObjIds |->
                 IF o = Data
                 THEN [ EmptyObject EXCEPT
                          !.props = [ k \in Keys |->
                                        PlainSlot(IF k = "flag" THEN 1 ELSE 0) ] ]
                 ELSE EmptyObject ],
    observers |-> << >>, shouldObserve |-> TRUE, depUid |-> 0,
    subs |-> << >>, target |-> 0, targetStack |-> << >>, wuid |-> 0,
    watchers |-> [ w \in W |->
                     [ created |-> FALSE, active |-> FALSE, dirty |-> FALSE,
                       deps |-> << >>, newDeps |-> << >>, depIds |-> {},
                       newDepIds |-> {}, value |-> undefined ] ],
    vmWatchers |-> << >>, queue |-> << >>,
    has |-> [ w \in W |-> "undefined" ], circular |-> [ w \in W |-> 0 ],
    waiting |-> FALSE, flushing |-> FALSE, index |-> 0,
    callbacks |-> << >>, pending |-> FALSE, timers |-> 0, copies |-> << >>,
    async |-> as,
    cbw |-> [ w \in W |-> IF w = 1 THEN c1 ELSE IF w = 3 THEN c3 ELSE "none" ],
    pc |-> "idle", caller |-> "drain", notifyRest |-> << >>,
    runLog |-> << >>, initialQ |-> {}, touched |-> [ w \in W |-> {} ],
    evald |-> << >>, cbd |-> {}, enqd |-> << >>, ticks |-> 0, updd |-> {},
    reads |-> 0, notified |-> << >>, obsd |-> {}, ret |-> Scalar(undefined),
    nops |-> 0, throws |-> [ get |-> {}, cb |-> {}, plain |-> {} ], handled |-> << >>,
    exc |-> FALSE ]

\* the callbacks of watchers 1 and 3: none writes; watcher 3's writes field a,
\* which watcher 1 reads
Programs == { << "none", "none" >>, << "none", "a" >> }

Init ==
  \E as \in BOOLEAN, p \in Programs :
    Holds(observe(Blank(as, p[1], p[2]), Ref(Data), TRUE).st)

(***************************************************************************)
(* Steps.  A task starts only when no other task is running (pc = "idle"). *)
(***************************************************************************)
\* vm.$watch / initComputed / mount: the next watcher of the program is constructed
Create ==
  /\ pc = "idle" /\ wuid < Cardinality(W)
  /\ Commit(NewWatcher(St))

\* user code assigns data[f] = v
Mutate(f, v) ==
  /\ pc = "idle" /\ wuid = Cardinality(W)
  /\ Commit(reactiveSetter(St, Data, f, v))

\* user code reads the computed property
ReadComputed ==
  /\ pc = "idle" /\ watchers[Computed].created
  /\ Commit(computedGetter(St, Computed).st)

\* watcher.update() called from outside a data change: vm.$forceUpdate() on a
\* user watcher while nothing is queued, or an update() that reaches a watcher
\* after its teardown
ForceUpdate(w) ==
  /\ pc = "idle" /\ watchers[w].created
  /\ (Queued(w) /\ queue = << >>) \/ ~watchers[w].active
  /\ Commit(Watcher_update(St, w))

\* watcher.teardown() (unwatch, vm.$destroy)
Teardown(w) ==
  /\ pc = "idle" /\ watchers[w].created
  /\ Cardinality({ x \in W : watchers[x].created /\ ~watchers[x].active }) < MaxTorn
  /\ Commit(Watcher_teardown(St, w))

\* the platform runs flushCallbacks: up to the first test of its for loop
TimerFire ==
  /\ pc = "idle" /\ timers > 0
  /\ Commit(flushCallbacks([ St EXCEPT !.timers = @ - 1 ]))

\* one iteration of the for loop of flushCallbacks, or its end
DrainStep ==
  /\ pc = "drain"
  /\ IF copies = << >>
     THEN Commit([ St EXCEPT !.pc = "idle" ])
     ELSE Commit(FlushBegin([ St EXCEPT !.copies = Tail(@) ], "drain"))

FlushStep ==
  /\ pc = "flush" /\ Len(runLog) < MaxFlushSteps
  /\ Commit(FlushIteration(St))

FlushEnd ==
  /\ pc = "post"
  /\ Commit(FlushFinish(St))

\* Dep.notify continues after the synchronous flush that one of its update() calls ran
NotifyResume ==
  /\ pc = "notify"
  /\ Commit(NotifyLoop([ St EXCEPT !.pc = "idle", !.notifyRest = << >> ], notifyRest))

Next ==
  \/ Create
  \/ \E f \in Keys, v \in 0..1 : Mutate(f, v)
  \/ ReadComputed
  \/ \E w \in W : ForceUpdate(w)
  \/ \E w \in W : Teardown(w)
  \/ TimerFire
  \/ DrainStep
  \/ FlushStep
  \/ FlushEnd
  \/ NotifyResume

Spec == Init /\ [][Next]_vars

TypeOK ==
  /\ pc \in {"idle", "drain", "flush", "post", "notify"}
  /\ index \in 0..Len(queue)

(***************************************************************************)
(* The same component with callbacks that feed the flush they run in:      *)
(* watcher 1's callback writes the field watcher 1 reads, or the callbacks *)
(* of watchers 1 and 3 each write the field the other reads.               *)
(***************************************************************************)
LoopPrograms == { << "a", "none" >>, << "b", "a" >> }

InitLoop ==
  \E p \in LoopPrograms :
    Holds(observe(Blank(TRUE, p[1], p[2]), Ref(Data), TRUE).st)

NextLoop ==
  \/ Create
  \/ \E f \in Keys, v \in 0..1 : Mutate(f, v)
  \/ TimerFire
  \/ DrainStep
  \/ FlushStep
  \/ FlushEnd

SpecLoop == InitLoop /\ [][NextLoop]_vars

(***************************************************************************)
(* The same component with user watchers whose getter or callback throws:  *)
(* the getter of watcher 1 (after it has read its fields), the callback of *)
(* watcher 3, or both.  Only functions of user watchers throw.             *)
(***************************************************************************)
ThrowPrograms ==
  { [ get |-> {1}, cb |-> {}, plain |-> {} ], [ get |-> {}, cb |-> {3}, plain |-> {} ],
    [ get |-> {1}, cb |-> {3}, plain |-> {} ], [ get |-> {3}, cb |-> {1}, plain |-> {} ] }

InitErr ==
  \E as \in BOOLEAN, t \in ThrowPrograms :
    Holds(observe([ Blank(as, "none", "none") EXCEPT !.throws = t ], Ref(Data), TRUE).st)

NextErr ==
  \/ Create
  \/ \E f \in Keys, v \in 0..1 : Mutate(f, v)
  \/ TimerFire
  \/ DrainStep
  \/ FlushStep
  \/ FlushEnd
  \/ NotifyResume

SpecErr == InitErr /\ [][NextErr]_vars

(***************************************************************************)
(* The same component where watcher 3 is created without options.user, as  *)
(* a render watcher is, and its getter throws once b is 1 (SpecStuck): the *)
(* catch block of get throws the error again and it leaves                 *)
(* flushSchedulerQueue.                                                    *)
(***************************************************************************)
InitStuck ==
  \E as \in BOOLEAN :
    Holds(observe([ Blank(as, "none", "none")
                      EXCEPT !.throws = [ get |-> {3}, cb |-> {}, plain |-> {3} ] ],
                  Ref(Data), TRUE).st)

SpecStuck == InitStuck /\ [][NextErr]_vars

(***************************************************************************)
(* Third specification: the same library on a data object whose fields    *)
(* hold containers.  Object 1 is the component's data { flag, b }, made    *)
(* reactive as root data; field a of object 1 is defined the way render.js *)
(* defines $attrs (shallow) and holds the same container as b.  Object 2   *)
(* is that container (a plain object or an array), object 3 its element / *)
(* a spare value.                                                          *)
(***************************************************************************)
MaxLen == 2
MaxOps == 3

Container == 2
Spare == 3

\* the state in which a user operation starts
UserOp == [ St EXCEPT !.nops = @ + 1 ]

Shapes == {"object", "array", "nested", "instance"}

ShapeHeap(shape) ==
  [ o \in ObjIds |->
      IF o = Data
      THEN [ EmptyObject EXCEPT !.props["flag"] = PlainSlot(1),
                                !.props["b"] = PlainSlot(Ref(Container)) ]
      ELSE IF o = Container
      THEN IF shape \in {"object", "instance"}
           THEN [ EmptyObject EXCEPT !.props["flag"] = PlainSlot(0) ]
           ELSE [ EmptyObject EXCEPT !.kind = "array", !.elems = << Ref(Spare) >> ]
      ELSE IF o = Spare /\ shape = "nested"
      THEN [ EmptyObject EXCEPT !.kind = "array" ]
      ELSE IF o = Spare /\ shape = "instance"
      THEN [ EmptyObject EXCEPT !.isVue = TRUE, !.props["flag"] = PlainSlot(0) ]
      ELSE EmptyObject ]

InitObs ==
  \E shape \in Shapes :
    LET S0 == [ Blank(TRUE, "none", "none") EXCEPT !.heap = ShapeHeap(shape) ]
        S1 == observe(S0, Ref(Data), TRUE).st
    IN Holds(defineReactive(S1, Data, "a", Ref(Container), FALSE, TRUE))

\* values user code stores in the data fields and in the container
FieldValues == { 0, NaN, Ref(Container) }
ElemValues == { 0, Ref(Spare) }
ObsKeys == { "flag", "a" }

\* the watchers 1, 2 and 3 of the program are constructed
ObsCreate ==
  /\ pc = "idle" /\ wuid < 3
  /\ Commit(NewWatcher(St))

\* toggleObserving(value)
ObsToggle(b) ==
  /\ pc = "idle" /\ wuid = 3 /\ nops < MaxOps /\ shouldObserve # b
  /\ Commit([ UserOp EXCEPT !.shouldObserve = b ])

\* Vue.observable(obj) / observe(obj)
ObsObserve(o, asRootData) ==
  /\ pc = "idle" /\ wuid = 3 /\ nops < MaxOps
  /\ IF asRootData /\ heap[o].ob # 0 THEN observers[heap[o].ob].vmCount = 0 ELSE TRUE
  /\ Commit(observe(UserOp, Ref(o), asRootData).st)

\* user code assigns data[key] = v
ObsAssign(key, v) ==
  /\ pc = "idle" /\ wuid = 3 /\ nops < MaxOps
  /\ Commit(PutProp(UserOp, Data, key, v))

\* user code calls arr.push(v)
ObsPush(arr, v) ==
  /\ pc = "idle" /\ wuid = 3 /\ nops < MaxOps
  /\ heap[arr].kind = "array" /\ Len(heap[arr].elems) < MaxLen
  /\ IsRef(v) => ObjOf(v) > arr
  /\ Commit(ArrayCall(UserOp, arr, "push", << v >>))

\* user code calls arr.pop(), shift(), unshift(v), splice(i, n, ...), sort() or
\* reverse()
ObsArrayCall(arr, method, args) ==
  /\ pc = "idle" /\ wuid = 3 /\ nops < MaxOps
  /\ heap[arr].kind = "array"
  /\ Len(heap[arr].elems) + Len(Inserted(method, args)) <= MaxLen
  /\ \A i \in 1..Len(Inserted(method, args)) :
        IsRef(Inserted(method, args)[i]) => ObjOf(Inserted(method, args)[i]) > arr
  /\ Commit(ArrayCall(UserOp, arr, method, args))

\* the calls of the array methods other than push that user code makes
ArrayCalls ==
  { << m, << >> >> : m \in {"pop", "shift", "sort", "reverse"} }
    \cup { << "unshift", << v >> >> : v \in ElemValues }
    \cup { << "splice", << i, n >> >> : i \in 0..(MaxLen - 1), n \in 0..1 }
    \cup { << "splice", << i, n, v >> >> :
             i \in 0..(MaxLen - 1), n \in 0..1, v \in ElemValues }

\* user code calls Vue.set(target, key, v) on an object
ObsSet(o, key, v) ==
  /\ pc = "idle" /\ wuid = 3 /\ nops < MaxOps
  /\ heap[o].kind = "object"
  /\ IsRef(v) => ObjOf(v) > o
  /\ Commit(set(UserOp, o, key, v))

\* user code calls Vue.set(target, i, v) on an array
ObsSetIndex(arr, i, v) ==
  /\ pc = "idle" /\ wuid = 3 /\ nops < MaxOps
  /\ heap[arr].kind = "array"
  /\ IsRef(v) => ObjOf(v) > arr
  /\ Commit(set(UserOp, arr, i, v))

\* user code calls Vue.delete(target, key) on an object
ObsDel(o, key) ==
  /\ pc = "idle" /\ wuid = 3 /\ nops < MaxOps
  /\ heap[o].kind = "object"
  /\ Commit(del(UserOp, o, key))

\* user code calls Vue.delete(target, i) on an array
ObsDelIndex(arr, i) ==
  /\ pc = "idle" /\ wuid = 3 /\ nops < MaxOps
  /\ heap[arr].kind = "array"
  /\ Commit(del(UserOp, arr, i))

NextObs ==
  \/ ObsCreate
  \/ \E b \in BOOLEAN : ObsToggle(b)
  \/ \E o \in ObjIds, r \in BOOLEAN : ObsObserve(o, r)
  \/ \E k \in {"a", "b"}, v \in FieldValues : ObsAssign(k, v)
  \/ \E v \in ElemValues : ObsPush(Container, v)
  \/ \E c \in ArrayCalls : ObsArrayCall(Container, c[1], c[2])
  \/ \E o \in ObjIds, k \in ObsKeys, v \in ElemValues : ObsSet(o, k, v)
  \/ \E i \in 0..(MaxLen - 1), v \in ElemValues : ObsSetIndex(Container, i, v)
  \/ \E o \in ObjIds, k \in ObsKeys : ObsDel(o, k)
  \/ \E i \in 0..(MaxLen - 1) : ObsDelIndex(Container, i)
  \/ TimerFire
  \/ DrainStep
  \/ FlushStep
  \/ FlushEnd

SpecObs == InitObs /\ [][NextObs]_vars

(***************************************************************************)
(* Fourth specification: vdom/patch.js.  patch(oldVnode, vnode, ...,       *)
(* removeOnly) of a root element whose children are keyed <li> vnodes; the *)
(* while loop of the root's updateChildren advances one iteration per      *)
(* step.  The child with key 1 may itself have keyed children.             *)
(***************************************************************************)
MaxKey == 4

ChildKeys == 1..MaxKey
\* the real nodes: the root, and one node per vnode that is ever created
ElmIds == 1..(3 * MaxKey + 6)
Root == 1

\* a VNode; key 0 is an undefined key, elm 0 an undefined elm, children << >>
\* undefined children, asyncFactory 0 an undefined asyncFactory.  data is
\* flattened: hasData (data defined), hasAttrs (data.attrs defined), type
\* (data.attrs.type, "undefined" when absent).  text "undefined" is an
\* undefined text.
VNode(tag, key, children) ==
  [ tag |-> tag, key |-> key, children |-> children, elm |-> 0, text |-> "undefined",
    isComment |-> FALSE, hasData |-> FALSE, hasAttrs |-> FALSE,
    type |-> "undefined", asyncFactory |-> 0, isAsyncPlaceholder |-> FALSE,
    factoryError |-> FALSE ]

\* an entry of oldCh that updateChildren has set to undefined
UndefVnode == VNode("#undefined", 0, << >>)
isUndefVnode(v) == v.tag = "#undefined"

\* web/util/element.js isTextInputType
isTextInputType(type) ==
  type \in {"text", "number", "password", "search", "email", "tel", "url"}

\* the value of  isDef(i = a.data) && isDef(i = i.attrs) && i.type
InputTypeOf(a) ==
  IF a.hasData /\ a.hasAttrs THEN a.type ELSE "false"

sameInputType(a, b) ==
  IF a.tag # "input" THEN TRUE
  ELSE \/ InputTypeOf(a) = InputTypeOf(b)
       \/ isTextInputType(InputTypeOf(a)) /\ isTextInputType(InputTypeOf(b))

\* sameVnode that compares the two objects
sameVnodeIdentity(a, b) == a = b

sameVnode(a, b) ==
  /\ a.key = b.key
  /\ a.asyncFactory = b.asyncFactory
  /\ \/ /\ a.tag = b.tag
        /\ a.isComment = b.isComment
        /\ a.hasData = b.hasData
        /\ sameInputType(a, b)
     \/ /\ a.isAsyncPlaceholder
        /\ ~b.factoryError

(***************************************************************************)
(* The real DOM (platforms/web/runtime/node-ops.js).  G is the record of   *)
(* the DOM and its history.                                                *)
(***************************************************************************)
InSeq(x, seq) == \E i \in 1..Len(seq) : seq[i] = x
IndexIn(x, seq) == CHOOSE i \in 1..Len(seq) : seq[i] = x

\* node.parentNode (0: null)
parentNode(G, e) ==
  IF \E p \in ElmIds : InSeq(e, G.dom[p])
  THEN CHOOSE p \in ElmIds : InSeq(e, G.dom[p])
  ELSE 0

\* node.nextSibling (0: null)
nextSibling(G, e) ==
  LET p == parentNode(G, e)
  IN IF p = 0 THEN 0
     ELSE IF IndexIn(e, G.dom[p]) = Len(G.dom[p]) THEN 0
     ELSE G.dom[p][IndexIn(e, G.dom[p]) + 1]

\* the DOM without node e in any child list
Detached(d, e) == [ p \in ElmIds |-> SelectSeq(d[p], LAMBDA x : x # e) ]

\* parentNode.insertBefore(newNode, referenceNode); referenceNode 0 is null.  The
\* DOM throws NotFoundError when referenceNode is not a child of parentNode.
insertBefore(G, parent, e, ref) ==
  IF ref # 0 /\ ~InSeq(ref, G.dom[parent])
  THEN [ G EXCEPT !.threw = TRUE ]
  ELSE IF ref = e THEN G
  ELSE LET d == Detached(G.dom, e)
           at == IF ref = 0 THEN Len(d[parent]) ELSE IndexIn(ref, d[parent]) - 1
       IN [ G EXCEPT !.dom = [ d EXCEPT ![parent] = InsertAt(@, at, e) ] ]

\* node.appendChild(child)
appendChild(G, parent, e) == insertBefore(G, parent, e, 0)

\* node.removeChild(child)
removeChild(G, parent, e) ==
  IF ~InSeq(e, G.dom[parent])
  THEN [ G EXCEPT !.threw = TRUE ]
  ELSE [ G EXCEPT !.dom = Detached(G.dom, e),
                  !.domLog = Append(@, [ op |-> "remove", parent |-> parent, elm |-> e ]) ]

\* document.createElement(tag) for vnode: the new node
createElement(G, vnode) ==
  [ G EXCEPT !.nextElm = @ + 1, !.elmKey[G.nextElm] = vnode.key ]

\* document.createTextNode(text): the new node
createTextNode(G, text) ==
  [ G EXCEPT !.nextElm = @ + 1, !.text[G.nextElm] = text ]

\* node.textContent = text
setTextContent(G, node, text) ==
  [ G EXCEPT !.text[node] = text,
             !.domLog = Append(@, [ op |-> "text", parent |-> parentNode(G, node),
                                    elm |-> node ]) ]

\* a call of nodeOps.insertBefore that repositions a child of parent
Move(G, parent, e, ref) ==
  insertBefore([ G EXCEPT !.domLog = Append(@, [ op |-> "move", parent |-> parent, elm |-> e ]) ],
               parent, e, ref)

\* removeNode that leaves the node in place
removeNodeKept(G, el) == G

\* canMove that ignores removeOnly
canMoveAlways(X) == TRUE

removeNode(G, el) ==
  IF parentNode(G, el) # 0 THEN removeChild(G, parentNode(G, el), el) ELSE G

insert(G, parent, elm, ref) ==
  IF parent = 0 THEN G
  ELSE IF ref # 0
       THEN IF parentNode(G, ref) = parent THEN insertBefore(G, parent, elm, ref) ELSE G
       ELSE appendChild(G, parent, elm)

(***************************************************************************)
(* Creating and removing vnodes.  An operator that in the source writes to *)
(* a vnode (vnode.elm = ...) or to an array of vnodes returns the written  *)
(* vnode in G.vn, the written array in G.vns.  Vnodes here are elements    *)
(* (tag defined, no component, no text); indices are 1-based.              *)
(***************************************************************************)
RECURSIVE createElm(_, _, _, _), createChildren(_, _)

createElm_insert(G, parentElm, refElm) ==
  insert([ G EXCEPT !.domLog = Append(@, [ op |-> "create", parent |-> parentElm, elm |-> G.vn.elm ]) ],
         parentElm, G.vn.elm, refElm)

createChildren_next(G, vnode, i) ==
  createChildren([ G EXCEPT !.vn = [ vnode EXCEPT !.children[i] = G.vn ] ], i + 1)

\* the loop of createChildren from index i for the vnode G.vn
createChildren(G, i) ==
  IF i > Len(G.vn.children) THEN G
  ELSE createChildren_next(createElm(G, G.vn.children[i], G.vn.elm, 0), G.vn, i)

\* a vnode with tag "undefined" is a text vnode
createElm(G, vnode, parentElm, refElm) ==
  IF vnode.tag = "undefined"
  THEN createElm_insert(
         [ createTextNode(G, vnode.text) EXCEPT !.vn = [ vnode EXCEPT !.elm = G.nextElm ] ],
         parentElm, refElm)
  ELSE createElm_insert(
         createChildren([ createElement(G, vnode) EXCEPT !.vn = [ vnode EXCEPT !.elm = G.nextElm ] ], 1),
         parentElm, refElm)

RECURSIVE addVnodes(_, _, _, _, _, _)

addVnodes_next(G, parentElm, refElm, vnodes, startIdx, endIdx) ==
  addVnodes(G, parentElm, refElm, [ vnodes EXCEPT ![startIdx] = G.vn ], startIdx + 1, endIdx)

addVnodes(G, parentElm, refElm, vnodes, startIdx, endIdx) ==
  IF startIdx > endIdx THEN [ G EXCEPT !.vns = vnodes ]
  ELSE addVnodes_next(createElm(G, vnodes[startIdx], parentElm, refElm),
                      parentElm, refElm, vnodes, startIdx, endIdx)

\* removeVnodes for vnodes without data: removeAndInvokeRemoveHook(ch) with no
\* rm and no ch.data is removeNode(ch.elm)
RECURSIVE removeVnodes(_, _, _, _)
removeVnodes(G, vnodes, startIdx, endIdx) ==
  IF startIdx > endIdx THEN G
  ELSE IF isUndefVnode(vnodes[startIdx])
       THEN removeVnodes(G, vnodes, startIdx + 1, endIdx)
       ELSE removeVnodes(removeNode(G, vnodes[startIdx].elm), vnodes, startIdx + 1, endIdx)

(***************************************************************************)
(* updateChildren.  X is the frame of one call: its arguments and locals.  *)
(***************************************************************************)
AllKeys == 1..(MaxKey + 2)

\* createKeyToOldIdx that finds no key
createKeyToOldIdxEmpty(children, beginIdx, endIdx) == [ k \in AllKeys |-> 0 ]

\* the highest index wins when a key occurs twice, as in the source's loop
createKeyToOldIdx(children, beginIdx, endIdx) ==
  [ k \in AllKeys |->
      IF \E i \in beginIdx..endIdx : children[i].key = k
      THEN CHOOSE i \in beginIdx..endIdx :
             /\ children[i].key = k
             /\ \A j \in beginIdx..endIdx : children[j].key = k => j <= i
      ELSE 0 ]

findIdxInOld(node, oldChildren, start, end) ==
  IF \E i \in start..(end - 1) : ~isUndefVnode(oldChildren[i]) /\ sameVnode(node, oldChildren[i])
  THEN CHOOSE i \in start..(end - 1) :
         /\ ~isUndefVnode(oldChildren[i]) /\ sameVnode(node, oldChildren[i])
         /\ \A j \in start..(i - 1) : isUndefVnode(oldChildren[j]) \/ ~sameVnode(node, oldChildren[j])
  ELSE 0

Frame(G, parentElm, oldChildren, newChildren, rmOnly) ==
  [ G |-> G, parentElm |-> parentElm, oldCh |-> oldChildren, newCh |-> newChildren,
    oldStartIdx |-> 1, oldEndIdx |-> Len(oldChildren),
    newStartIdx |-> 1, newEndIdx |-> Len(newChildren),
    oldKeyToIdx |-> << >>, removeOnly |-> rmOnly ]

oldStartVnode(X) == X.oldCh[X.oldStartIdx]
oldEndVnode(X) == X.oldCh[X.oldEndIdx]
newStartVnode(X) == X.newCh[X.newStartIdx]
newEndVnode(X) == X.newCh[X.newEndIdx]
canMove(X) == ~X.removeOnly

\* after patchVnode(oldStartVnode, newStartVnode) returned G
UC_sameStart(X, G) ==
  [ X EXCEPT !.G = G, !.newCh[X.newStartIdx] = G.vn,
             !.oldStartIdx = @ + 1, !.newStartIdx = @ + 1 ]

\* after patchVnode(oldEndVnode, newEndVnode) returned G
UC_sameEnd(X, G) ==
  [ X EXCEPT !.G = G, !.newCh[X.newEndIdx] = G.vn,
             !.oldEndIdx = @ - 1, !.newEndIdx = @ - 1 ]

\* after patchVnode(oldStartVnode, newEndVnode) returned G: vnode moved right
UC_movedRight(X, G) ==
  [ X EXCEPT !.G = IF canMove(X)
                   THEN Move(G, X.parentElm, oldStartVnode(X).elm, nextSibling(G, oldEndVnode(X).elm))
                   ELSE G,
             !.newCh[X.newEndIdx] = G.vn,
             !.oldStartIdx = @ + 1, !.newEndIdx = @ - 1 ]

\* after patchVnode(oldEndVnode, newStartVnode) returned G: vnode moved left
UC_movedLeft(X, G) ==
  [ X EXCEPT !.G = IF canMove(X)
                   THEN Move(G, X.parentElm, oldEndVnode(X).elm, oldStartVnode(X).elm)
                   ELSE G,
             !.newCh[X.newStartIdx] = G.vn,
             !.oldEndIdx = @ - 1, !.newStartIdx = @ + 1 ]

\* after patchVnode(vnodeToMove, newStartVnode) returned G
UC_keyedMove(X, G, idxInOld) ==
  [ X EXCEPT !.G = IF canMove(X)
                   THEN Move(G, X.parentElm, X.oldCh[idxInOld].elm, oldStartVnode(X).elm)
                   ELSE G,
             !.newCh[X.newStartIdx] = G.vn,
             !.oldCh[idxInOld] = UndefVnode,
             !.newStartIdx = @ + 1 ]

\* after createElm(newStartVnode, ..., parentElm, oldStartVnode.elm) returned G
UC_created(X, G) ==
  [ X EXCEPT !.G = G, !.newCh[X.newStartIdx] = G.vn, !.newStartIdx = @ + 1 ]

RECURSIVE patchVnode(_, _, _, _)

\* the last branch of the loop, X.oldKeyToIdx being defined
UC_keyed(X, idxInOld) ==
  IF idxInOld = 0
  THEN UC_created(X, createElm(X.G, newStartVnode(X), X.parentElm, oldStartVnode(X).elm))
  ELSE IF sameVnode(X.oldCh[idxInOld], newStartVnode(X))
       THEN UC_keyedMove(X, patchVnode(X.G, X.oldCh[idxInOld], newStartVnode(X), FALSE), idxInOld)
       ELSE UC_created(X, createElm(X.G, newStartVnode(X), X.parentElm, oldStartVnode(X).elm))

UC_lookup(X) ==
  UC_keyed(X, IF newStartVnode(X).key # 0
              THEN X.oldKeyToIdx[newStartVnode(X).key]
              ELSE findIdxInOld(newStartVnode(X), X.oldCh, X.oldStartIdx, X.oldEndIdx))

\* one iteration of the while loop
UC_iter(X) ==
  IF isUndefVnode(oldStartVnode(X)) THEN [ X EXCEPT !.oldStartIdx = @ + 1 ]
  ELSE IF isUndefVnode(oldEndVnode(X)) THEN [ X EXCEPT !.oldEndIdx = @ - 1 ]
  ELSE IF sameVnode(oldStartVnode(X), newStartVnode(X))
  THEN UC_sameStart(X, patchVnode(X.G, oldStartVnode(X), newStartVnode(X), FALSE))
  ELSE IF sameVnode(oldEndVnode(X), newEndVnode(X))
  THEN UC_sameEnd(X, patchVnode(X.G, oldEndVnode(X), newEndVnode(X), FALSE))
  ELSE IF sameVnode(oldStartVnode(X), newEndVnode(X))
  THEN UC_movedRight(X, patchVnode(X.G, oldStartVnode(X), newEndVnode(X), FALSE))
  ELSE IF sameVnode(oldEndVnode(X), newStartVnode(X))
  THEN UC_movedLeft(X, patchVnode(X.G, oldEndVnode(X), newStartVnode(X), FALSE))
  ELSE IF DOMAIN X.oldKeyToIdx = {}
  THEN UC_lookup([ X EXCEPT !.oldKeyToIdx = createKeyToOldIdx(X.oldCh, X.oldStartIdx, X.oldEndIdx) ])
  ELSE UC_lookup(X)

UC_looping(X) == X.oldStartIdx <= X.oldEndIdx /\ X.newStartIdx <= X.newEndIdx

UC_added(X, G) == [ X EXCEPT !.G = G, !.newCh = G.vns ]

\* the statements after the while loop
UC_tail(X) ==
  IF X.oldStartIdx > X.oldEndIdx
  THEN UC_added(X, addVnodes(X.G, X.parentElm,
                             IF X.newEndIdx + 1 > Len(X.newCh) THEN 0 ELSE X.newCh[X.newEndIdx + 1].elm,
                             X.newCh, X.newStartIdx, X.newEndIdx))
  ELSE IF X.newStartIdx > X.newEndIdx
       THEN [ X EXCEPT !.G = removeVnodes(X.G, X.oldCh, X.oldStartIdx, X.oldEndIdx) ]
       ELSE X

RECURSIVE UC_run(_)
UC_run(X) == IF UC_looping(X) THEN UC_run(UC_iter(X)) ELSE UC_tail(X)

updateChildren(G, parentElm, oldChildren, newChildren, rmOnly) ==
  UC_run(Frame(G, parentElm, oldChildren, newChildren, rmOnly))

\* patchVnode's return once its children are ch
patchVnode_return(G, vnode, ch) == [ G EXCEPT !.vn = [ vnode EXCEPT !.children = ch ] ]

patchVnode_updated(X, vnode) == patchVnode_return(X.G, vnode, X.newCh)

patchVnode_added(G, vnode) == patchVnode_return(G, vnode, G.vns)

\* patchVnode: if (isDef(oldVnode.text)) nodeOps.setTextContent(elm, '')
patchVnode_clearText(G, oldVnode) ==
  IF oldVnode.text # "undefined" THEN setTextContent(G, oldVnode.elm, "") ELSE G

\* a patchVnode that sets the text of the node whatever the old text is
patchVnode_textAlways(G, oldVnode, vnode) ==
  setTextContent(G, oldVnode.elm, vnode.text)

\* patchVnode: else if (oldVnode.text !== vnode.text) setTextContent(elm, vnode.text)
patchVnode_text(G, oldVnode, vnode) ==
  IF oldVnode.text # vnode.text THEN setTextContent(G, oldVnode.elm, vnode.text) ELSE G

\* children << >> are undefined children
patchVnode(G, oldVnode, vnode, rmOnly) ==
  IF vnode.text # "undefined"
  THEN patchVnode_return(patchVnode_text(G, oldVnode, vnode),
                         [ vnode EXCEPT !.elm = oldVnode.elm ], vnode.children)
  ELSE IF oldVnode.children # << >> /\ vnode.children # << >>
  THEN patchVnode_updated(
         updateChildren(G, oldVnode.elm, oldVnode.children, vnode.children, rmOnly),
         [ vnode EXCEPT !.elm = oldVnode.elm ])
  ELSE IF vnode.children # << >>
  THEN patchVnode_added(
         addVnodes(patchVnode_clearText(G, oldVnode), oldVnode.elm, 0, vnode.children,
                   1, Len(vnode.children)),
         [ vnode EXCEPT !.elm = oldVnode.elm ])
  ELSE IF oldVnode.children # << >>
  THEN patchVnode_return(removeVnodes(G, oldVnode.children, 1, Len(oldVnode.children)),
                         [ vnode EXCEPT !.elm = oldVnode.elm ], << >>)
  ELSE patchVnode_return(patchVnode_clearText(G, oldVnode),
                         [ vnode EXCEPT !.elm = oldVnode.elm ], << >>)

(***************************************************************************)
(* The program of the fourth specification: a root element rendered with   *)
(* the child list O is patched to the child list N.                        *)
(***************************************************************************)
\* the lists of at most MaxKey children with unique keys
KeyLists ==
  { l \in UNION { [ 1..n -> ChildKeys ] : n \in 0..MaxKey } :
      \A i, j \in 1..Len(l) : l[i] = l[j] => i = j }

\* the old lists: the keys are numbered by their position in the first render
OldLists == { [ i \in 1..n |-> i ] : n \in 0..MaxKey }

\* the old and the new children of the child with key 1
GrandShapes ==
  { << << >>, << >> >>,
    << << MaxKey + 1, MaxKey + 2 >>, << MaxKey + 2, MaxKey + 1 >> >>,
    << << MaxKey + 1, MaxKey + 2 >>, << MaxKey + 2 >> >>,
    << << MaxKey + 1 >>, << MaxKey + 2, MaxKey + 1 >> >> }

\* the render output for a list of keys: <li :key="k"> with <span> children
\* under the child whose key is 1
Render(keys, grand) ==
  [ i \in 1..Len(keys) |->
      VNode("li", keys[i],
            IF keys[i] = 1
            THEN [ j \in 1..Len(grand) |-> VNode("span", grand[j], << >>) ]
            ELSE << >>) ]

\* the empty document with its root element
EmptyDom ==
  [ dom |-> [ p \in ElmIds |-> << >> ], elmKey |-> [ e \in ElmIds |-> 0 ],
    nextElm |-> Root + 1, domLog |-> << >>, threw |-> FALSE,
    vn |-> UndefVnode, vns |-> << >> ]

\* the first render: the children of the root are created from the old vnodes
Mounted(vnodes) ==
  [ addVnodes(EmptyDom, Root, 0, vnodes, 1, Len(vnodes)) EXCEPT !.domLog = << >> ]

\* the frame and the DOM held in the variables
XNow ==
  [ G |-> [ dom |-> dom, elmKey |-> elmKey, nextElm |-> nextElm, domLog |-> domLog,
            threw |-> threw, vn |-> UndefVnode, vns |-> << >> ],
    parentElm |-> Root, oldCh |-> oldCh, newCh |-> newCh,
    oldStartIdx |-> oldStartIdx, oldEndIdx |-> oldEndIdx,
    newStartIdx |-> newStartIdx, newEndIdx |-> newEndIdx,
    oldKeyToIdx |-> oldKeyToIdx, removeOnly |-> removeOnly ]

\* the variables take the frame X
HoldsFrame(X, at) ==
  /\ dom = X.G.dom /\ elmKey = X.G.elmKey /\ nextElm = X.G.nextElm
  /\ domLog = X.G.domLog /\ threw = X.G.threw
  /\ oldCh = X.oldCh /\ newCh = X.newCh
  /\ oldStartIdx = X.oldStartIdx /\ oldEndIdx = X.oldEndIdx
  /\ newStartIdx = X.newStartIdx /\ newEndIdx = X.newEndIdx
  /\ oldKeyToIdx = X.oldKeyToIdx /\ removeOnly = X.removeOnly /\ dpc = at
  /\ removal = RmOff

CommitFrame(X, at) ==
  /\ dom' = X.G.dom /\ elmKey' = X.G.elmKey /\ nextElm' = X.G.nextElm
  /\ domLog' = X.G.domLog /\ threw' = X.G.threw
  /\ oldCh' = X.oldCh /\ newCh' = X.newCh
  /\ oldStartIdx' = X.oldStartIdx /\ oldEndIdx' = X.oldEndIdx
  /\ newStartIdx' = X.newStartIdx /\ newEndIdx' = X.newEndIdx
  /\ oldKeyToIdx' = X.oldKeyToIdx /\ removeOnly' = X.removeOnly /\ dpc' = at
  /\ UNCHANGED << rvars, removal, xvars >>

InitFrame(G, N, rmOnly) == HoldsFrame(Frame(G, Root, G.vns, N, rmOnly), "loop")

\* patch(oldVnode, vnode, hydrating, removeOnly) has entered updateChildren
\* for the children of the root
InitDiff ==
  /\ HoldsState(Blank(TRUE, "none", "none")) /\ XOff
  /\ \E O \in OldLists, N \in KeyLists, grand \in GrandShapes, rmOnly \in BOOLEAN :
       InitFrame(Mounted(Render(O, grand[1])), Render(N, grand[2]), rmOnly)

\* one iteration of the while loop of updateChildren
DiffStep ==
  /\ dpc = "loop"
  /\ UC_looping(XNow)
  /\ CommitFrame(UC_iter(XNow), "loop")

\* the loop has ended: the rest of updateChildren
DiffFinish ==
  /\ dpc = "loop"
  /\ ~UC_looping(XNow)
  /\ CommitFrame(UC_tail(XNow), "done")

NextDiff == DiffStep \/ DiffFinish

SpecDiff == InitDiff /\ [][NextDiff]_vars

(***************************************************************************)
(* Fifth specification: the removal of one vnode (removeAndInvokeRemoveHook *)
(* and createRmCb).  A remove hook that is handed rm either calls it before *)
(* it returns or keeps it and calls it in a later task.                    *)
(***************************************************************************)
MaxMods == 2
MaxNest == 2

\* the element of the removed vnode: the only child of the root
RmElm == Root + 1

\* const listeners = cbs.remove.length + 1
RmListenersShort(mods) == mods

RmListeners(mods) == mods + 1

\* the removed vnode followed by the vnodes reached through
\* componentInstance._vnode; hook: data.hook.remove is defined
RmChains ==
  { c \in UNION { [ 1..n -> [ hasData : BOOLEAN, hook : BOOLEAN ] ] : n \in 1..MaxNest } :
      \A l \in 1..Len(c) : c[l].hook => c[l].hasData }

\* the callers of rm for the vnode at level l: the module hook i, or for
\* i = 0 the vnode's own remove hook (the implicit call when it has none)
RmCallers(mods, levels) == { << l, i >> : l \in levels, i \in 0..mods }

\* rm(): the function remove() of createRmCb, called by c
rm_call(R, c) ==
  [ R EXCEPT !.listeners = @ - 1,
             !.called = @ \cup {c},
             !.G = IF R.listeners - 1 = 0 THEN removeNode(R.G, RmElm) ELSE R.G ]

\* a remove hook is invoked with rm: it calls rm now or keeps it
RmInvokeHook(R, c, sync) ==
  IF c \in sync THEN rm_call(R, c) ELSE [ R EXCEPT !.waiting = @ \cup {c} ]

\* for (i = 0; i < cbs.remove.length; ++i) cbs.remove[i](vnode, rm)
RECURSIVE RmModuleHooks(_, _, _, _)
RmModuleHooks(R, l, i, sync) ==
  IF i > R.mods THEN R
  ELSE RmModuleHooks(RmInvokeHook(R, << l, i >>, sync), l, i + 1, sync)

\* the vnode's own remove hook, or rm()
RmOwnHook(R, l, sync) ==
  IF R.chain[l].hook THEN RmInvokeHook(R, << l, 0 >>, sync) ELSE rm_call(R, << l, 0 >>)

\* rm.listeners += listeners, or rm = createRmCb(vnode.elm, listeners)
RmShare(R, hasRm) ==
  IF hasRm THEN [ R EXCEPT !.listeners = @ + RmListeners(R.mods) ]
  ELSE [ R EXCEPT !.listeners = RmListeners(R.mods) ]

\* removeAndInvokeRemoveHook(vnode, rm) for the vnode at level l of the chain
RECURSIVE removeAndInvokeRemoveHook(_, _, _, _)
removeAndInvokeRemoveHook(R, l, hasRm, sync) ==
  IF hasRm \/ R.chain[l].hasData
  THEN RmOwnHook(
         RmModuleHooks(
           IF l < Len(R.chain) /\ R.chain[l + 1].hasData
           THEN removeAndInvokeRemoveHook(RmShare(R, hasRm), l + 1, TRUE, sync)
           ELSE RmShare(R, hasRm),
           l, 1, sync),
         l, sync)
  ELSE [ R EXCEPT !.G = removeNode(R.G, RmElm) ]

\* history: how many callers kept rm when removeAndInvokeRemoveHook returned
RmKept(R) == [ R EXCEPT !.kept = Cardinality(R.waiting) ]

\* the removal held in the variables
RmNow ==
  [ removal EXCEPT !.G = [ dom |-> dom, elmKey |-> elmKey, nextElm |-> nextElm,
                           domLog |-> domLog, threw |-> threw,
                           vn |-> UndefVnode, vns |-> << >> ] ]

CommitRm(R, at) ==
  /\ removal' = [ R EXCEPT !.at = at, !.G = << >> ]
  /\ dom' = R.G.dom /\ domLog' = R.G.domLog /\ threw' = R.G.threw
  /\ UNCHANGED << rvars, elmKey, nextElm, oldCh, newCh, oldStartIdx, oldEndIdx,
                  newStartIdx, newEndIdx, oldKeyToIdx, removeOnly, dpc, xvars >>

\* the root has one child, the element of the first vnode of the chain
HoldsRm(G, chain, mods) ==
  /\ dom = G.dom /\ elmKey = G.elmKey /\ nextElm = G.nextElm
  /\ domLog = G.domLog /\ threw = G.threw
  /\ oldCh = << >> /\ newCh = << >>
  /\ oldStartIdx = 0 /\ oldEndIdx = 0 /\ newStartIdx = 0 /\ newEndIdx = 0
  /\ oldKeyToIdx = << >> /\ removeOnly = FALSE /\ dpc = "off"
  /\ removal = [ at |-> "mounted", chain |-> chain, mods |-> mods, listeners |-> 0,
                 waiting |-> {}, called |-> {}, kept |-> 0, G |-> << >> ]

InitRm ==
  /\ HoldsState(Blank(TRUE, "none", "none")) /\ XOff
  /\ \E chain \in RmChains, mods \in 0..MaxMods :
       HoldsRm(Mounted(Render(<< MaxKey >>, << >>)), chain, mods)

\* removeVnodes reaches the vnode; the hooks in sync call rm before returning
RmRemove(sync) ==
  /\ removal.at = "mounted"
  /\ CommitRm(RmKept(removeAndInvokeRemoveHook(RmNow, 1, FALSE, sync)), "removed")

\* a hook that kept rm calls it (a transition has ended)
RmFire(c) ==
  /\ removal.at = "removed"
  /\ c \in removal.waiting
  /\ CommitRm(rm_call([ RmNow EXCEPT !.waiting = @ \ {c} ], c), "removed")

NextRm ==
  \/ \E sync \in SUBSET RmCallers(removal.mods, 1..Len(removal.chain)) : RmRemove(sync)
  \/ \E c \in RmCallers(MaxMods, 1..MaxNest) : RmFire(c)

SpecRm == InitRm /\ [][NextRm]_vars

(***************************************************************************)
(* Sixth specification: the scheduler alone.  Every id of W is a watcher   *)
(* that update() hands to queueWatcher; what watcher.before() and          *)
(* watcher.run() do is left open: while a watcher runs, user code may call *)
(* update() on any watchers, in any order.                                 *)
(***************************************************************************)
MaxRuns == 4

InitQ ==
  \E as \in BOOLEAN : Holds(Blank(as, "none", "none"))

\* a data change outside a flush reaches watcher w: w.update()
QUpdate(w) ==
  /\ pc = "idle"
  /\ Commit(queueWatcher(St, w))

\* the for loop of flushSchedulerQueue up to the call of watcher.run()
QRunBegin ==
  /\ pc = "flush" /\ Len(runLog) < MaxRuns
  /\ Commit([ St EXCEPT !.has[queue[index + 1]] = "null",
                        !.runLog = Append(@, queue[index + 1]), !.pc = "run" ])

\* the running watcher changes data that watcher w depends on: w.update()
QRunUpdate(w) ==
  /\ pc = "run"
  /\ Commit(queueWatcher(St, w))

\* watcher.run() returns: the rest of the iteration
QRunEnd ==
  /\ pc = "run"
  /\ Commit(FlushIteration_check(St, queue[index + 1]))

NextQ ==
  \/ \E w \in W : QUpdate(w)
  \/ TimerFire
  \/ DrainStep
  \/ QRunBegin
  \/ \E w \in W : QRunUpdate(w)
  \/ QRunEnd
  \/ FlushEnd

SpecQ == InitQ /\ [][NextQ]_vars

(***************************************************************************)
(* nextTick with callbacks that call nextTick (SpecTick).  A callback is    *)
(* named by what it does: "leaf" returns, "nest" calls nextTick with a      *)
(* "leaf", "nest2" calls nextTick with a "nest".                            *)
(***************************************************************************)
MaxTicks == 4

TickCbs == {"leaf", "nest", "nest2"}

\* the callback a callback hands to nextTick
TickInner(c) == IF c = "nest2" THEN "nest" ELSE "leaf"

TickRegistered(c, draining) ==
  [ tick EXCEPT !.reg = Append(@, [ cb |-> c, at |-> tick.drains,
                                    draining |-> draining ]),
                !.timerAt = IF ~pending THEN Append(@, tick.drains) ELSE @ ]

InitTick == \E as \in BOOLEAN : Holds(Blank(as, "none", "none"))

\* user code calls nextTick(cb) outside a drain
TickCall(c) ==
  /\ pc = "idle" /\ Len(tick.reg) < MaxTicks
  /\ CommitState(nextTick(St, c))
  /\ tick' = TickRegistered(c, FALSE)
  /\ UNCHANGED << dvars, xTick >>

\* the platform runs flushCallbacks: up to the for loop
TickFire ==
  /\ pc = "idle" /\ timers > 0
  /\ CommitState(flushCallbacks([ St EXCEPT !.timers = @ - 1 ]))
  /\ tick' = [ tick EXCEPT !.drains = @ + 1 ]
  /\ UNCHANGED << dvars, xTick >>

\* copies[i]() of a callback that returns
TickRunLeaf ==
  /\ pc = "drain" /\ copies # << >> /\ Head(copies) = "leaf"
  /\ CommitState([ St EXCEPT !.copies = Tail(@) ])
  /\ tick' = [ tick EXCEPT !.ran = Append(@, [ cb |-> "leaf", at |-> tick.drains ]) ]
  /\ UNCHANGED << dvars, xTick >>

\* copies[i]() of a callback that calls nextTick
TickRunNest ==
  /\ pc = "drain" /\ copies # << >> /\ Head(copies) \in {"nest", "nest2"}
  /\ CommitState(nextTick([ St EXCEPT !.copies = Tail(@) ], TickInner(Head(copies))))
  /\ tick' = [ TickRegistered(TickInner(Head(copies)), TRUE)
                EXCEPT !.ran = Append(@, [ cb |-> Head(copies), at |-> tick.drains ]) ]
  /\ UNCHANGED << dvars, xTick >>

\* the for loop of flushCallbacks ends
TickDone ==
  /\ pc = "drain" /\ copies = << >>
  /\ Commit([ St EXCEPT !.pc = "idle" ])

NextTick ==
  \/ \E c \in TickCbs : TickCall(c)
  \/ TickFire
  \/ TickRunLeaf
  \/ TickRunNest
  \/ TickDone

SpecTick == InitTick /\ [][NextTick]_vars

(***************************************************************************)
(* nextTick with callbacks that throw as well (SpecTickLive): "throw" is a *)
(* callback that throws.  tick.timerAt holds, for every call of timerFunc, *)
(* the number of drains started before it.  The platform runs the function *)
(* handed to timerFunc and the for loop of flushCallbacks runs to its end, *)
(* hence the weak fairness of the steps of the drain.                      *)
(***************************************************************************)
\* the function pushed by nextTick whose cb throws, without the try
nextTick_cbUncaught(S) == [ S EXCEPT !.copies = << >>, !.pc = "idle" ]

\* the function pushed by nextTick whose cb throws: try cb.call(ctx), catch
\* handleError(e, ctx, 'nextTick')
nextTick_cb(S) == handleError([ S EXCEPT !.copies = Tail(@), !.exc = TRUE ], 0, "nextTick")

\* copies[i]() of a callback that throws
TickRunThrow ==
  /\ pc = "drain" /\ copies # << >> /\ Head(copies) = "throw"
  /\ CommitState(nextTick_cb(St))
  /\ tick' = [ tick EXCEPT !.ran = Append(@, [ cb |-> "throw", at |-> tick.drains ]) ]
  /\ UNCHANGED << dvars, xTick >>

NextTickLive ==
  \/ \E c \in {"leaf", "nest", "throw"} : TickCall(c)
  \/ TickFire
  \/ TickRunLeaf
  \/ TickRunNest
  \/ TickRunThrow
  \/ TickDone

SpecTickLive ==
  /\ InitTick /\ [][NextTickLive]_vars
  /\ WF_vars(TickFire) /\ WF_vars(TickRunLeaf) /\ WF_vars(TickRunNest)
  /\ WF_vars(TickRunThrow) /\ WF_vars(TickDone)

(***************************************************************************)
(* One call of Dep.notify whose update() calls change the dep's subs       *)
(* (SpecNotify): an update() may remove a watcher from subs (teardown,     *)
(* cleanupDeps) and may add one (addDep).                                  *)
(***************************************************************************)
\* no dep but d has subscribers
OnlySubsOf(d) == \A e \in DOMAIN subs : e # d => subs[e] = << >>

\* one Dep has been constructed
InitNotify == \E as \in BOOLEAN : Holds(NewDep(Blank(as, "none", "none")))

\* dep.addSub(w) from Watcher.addDep, before the notify
NoteSubscribe(d, w) ==
  /\ note.at = "off" /\ OnlySubsOf(d) /\ ~InSeq(w, subs[d])
  /\ CommitState(Dep_addSub(St, d, w))
  /\ UNCHANGED << dvars, xvars >>

\* notify up to its for loop
NoteBegin(d) ==
  /\ note.at = "off" /\ OnlySubsOf(d)
  /\ note' = [ at |-> "loop", d |-> d, began |-> subs[d],
               rest |-> NotifySubs(St, d), log |-> << >> ]
  /\ CommitState([ St EXCEPT !.notified = Append(@, d) ])
  /\ UNCHANGED << dvars, xNote >>

\* what the update() of a watcher does to the subs of the dep: nothing (0),
\* or dep.removeSub(r), and nothing (0) or dep.addSub(a)
NoteEffect(S, d, r, a) ==
  LET S1 == IF r = 0 THEN S ELSE Dep_removeSub(S, d, r)
  IN IF a = 0 \/ InSeq(a, S1.subs[d]) THEN S1 ELSE Dep_addSub(S1, d, a)

\* one iteration of the for loop: subs[i].update()
NoteUpdate(r, a) ==
  /\ note.at = "loop" /\ note.rest # << >>
  /\ note' = [ note EXCEPT !.rest = Tail(@), !.log = Append(@, Head(note.rest)) ]
  /\ CommitState(NoteEffect([ St EXCEPT !.updd = {Head(note.rest)} ], note.d, r, a))
  /\ UNCHANGED << dvars, xNote >>

\* the for loop ends
NoteEnd ==
  /\ note.at = "loop" /\ note.rest = << >>
  /\ note' = [ note EXCEPT !.at = "done" ]
  /\ UNCHANGED << rvars, dvars, xNote >>

NextNotify ==
  \/ \E d \in DOMAIN subs, w \in W : NoteSubscribe(d, w)
  \/ \E d \in DOMAIN subs : NoteBegin(d)
  \/ \E r, a \in W \cup {0} : NoteUpdate(r, a)
  \/ NoteEnd

SpecNotify == InitNotify /\ [][NextNotify]_vars

(***************************************************************************)
(* The target stack under evaluations that throw (SpecTarget): watchers 1  *)
(* to 4 exist, any of their getters and callbacks may throw, and get,      *)
(* getData and an immediate watch callback are called at any depth of the  *)
(* stack (a component is created, a computed property is read, inside a    *)
(* render).                                                                *)
(***************************************************************************)
TargetThrows ==
  { [ get |-> {}, cb |-> {}, plain |-> {} ], [ get |-> {1, 2}, cb |-> {3}, plain |-> {} ],
    [ get |-> {2, 4}, cb |-> {1}, plain |-> {} ] }

InitTarget ==
  \E as \in BOOLEAN, t \in TargetThrows :
    Holds(observe([ Blank(as, "none", "a") EXCEPT !.throws = t ], Ref(Data), TRUE).st)

TPush(t) ==
  /\ pc = "idle" /\ wuid = Cardinality(W) /\ Len(targetStack) < MaxNest
  /\ Commit(pushTarget(St, t))

TPop ==
  /\ pc = "idle" /\ wuid = Cardinality(W)
  /\ Commit(popTarget(St))

TGet(w) ==
  /\ pc = "idle" /\ wuid = Cardinality(W)
  /\ Commit(Watcher_get(St, w).st)

TGetData(throwing) ==
  /\ pc = "idle" /\ wuid = Cardinality(W)
  /\ Commit(getData(St, throwing))

TImmediate(w) ==
  /\ pc = "idle" /\ wuid = Cardinality(W) /\ WUser(w)
  /\ Commit(watchImmediate(St, w))

NextTarget ==
  \/ Create
  \/ \E t \in W \cup {0} : TPush(t)
  \/ TPop
  \/ \E w \in W : TGet(w)
  \/ \E throwing \in BOOLEAN : TGetData(throwing)
  \/ \E w \in W : TImmediate(w)

SpecTarget == InitTarget /\ [][NextTarget]_vars

(***************************************************************************)
(* The post-flush hooks of the scheduler (SpecHooks).  Watcher w belongs   *)
(* to component w; hk.render holds the watchers that are their component's *)
(* render watcher (vm._watcher === watcher), hk.mounted and hk.destroyed   *)
(* the components with _isMounted and _isDestroyed.  The run of a watcher  *)
(* may enqueue a watcher and may activate a kept-alive component; a hook   *)
(* may enqueue a watcher and may destroy a component.  config.async is     *)
(* true.                                                                   *)
(***************************************************************************)
MaxAct == 2

HookRoles ==
  { [ render |-> {1, 3, 4}, mounted |-> {1, 3} ],
    [ render |-> {2, 4}, mounted |-> {1, 2, 4} ] }

\* the watcher that the run of a watcher enqueues, the watcher that a hook
\* enqueues, the components that hooks destroy, and the kept-alive component
\* that patches activate (0: none)
RunEnqueues == {0, 1}
HookEnqueues == {0, 3}
HookDestroyed == {0, 1, 3}
HookKeptAlive == {0, 4}

\* queueActivatedComponent(vm)
queueActivatedComponent(H, vm) ==
  [ H EXCEPT !.activatedChildren = Append(@, vm) ]

\* flushSchedulerQueue after its loop: the copies of the two post queues, and
\* activatedChildren.length = 0 of resetSchedulerState
PostQueues(H, S) ==
  [ H EXCEPT !.activatedQueue = H.activatedChildren, !.updatedQueue = S.queue,
             !.i = Len(S.queue), !.activatedChildren = << >>,
             !.log = << >>, !.enq = << >>, !.passes = @ + 1 ]

\* the test of callUpdatedHooks without its _isDestroyed part
UpdatedEligibleMounted(H, w) == w \in H.render /\ w \in H.mounted

\* callUpdatedHooks: vm._watcher === watcher && vm._isMounted && !vm._isDestroyed
UpdatedEligible(H, w) ==
  w \in H.render /\ w \in H.mounted /\ w \notin H.destroyed

\* what the body of a hook does to the scheduler: nothing (e = 0) or a state
\* change that calls update() on watcher e
HookBody(S, e) == IF e = 0 THEN S ELSE queueWatcher(S, e)

\* what the body of a hook does to the components: nothing (d = 0), or
\* vm.$destroy() of component d
HookDestroys(H, e, d) ==
  [ H EXCEPT !.destroyed = IF d = 0 THEN @ ELSE @ \cup {d},
             !.enq = IF e = 0 THEN @ ELSE Append(@, e) ]

\* callHook(vm, 'updated') for the watcher at position i of the copy
HookUpdatedCalled(H, e, d) ==
  HookDestroys([ H EXCEPT !.log = Append(@, [ kind |-> "updated", pos |-> H.i,
                                               w |-> H.updatedQueue[H.i],
                                               destroyed |-> H.destroyed ]),
                          !.i = @ - 1 ], e, d)

InitHooks ==
  /\ HoldsState(Blank(TRUE, "none", "none"))
  /\ DiffOff
  /\ tick = TickOff /\ note = NoteOff /\ rd = RdOff /\ hy = HyOff /\ ast = AstOff /\ cf = CfOff /\ tx = TxOff /\ rp = RpOff /\ pz = PzOff /\ ph = PhOff /\ gn = GnOff
  /\ \E r \in HookRoles : hk = [ HkOff EXCEPT !.render = r.render, !.mounted = r.mounted ]

\* a state change calls update() on watcher w outside a flush
HUpdate(w) ==
  /\ pc = "idle" /\ hk.passes = 0
  /\ IF queue = << >> THEN TRUE ELSE w > queue[Len(queue)]
  /\ Commit(queueWatcher(St, w))

\* one iteration of the loop of flushSchedulerQueue: the run of the watcher
\* enqueues watcher e (0: none) and activates component a (0: none)
HRun(e, a) ==
  /\ pc = "flush"
  /\ e # 0 => Len(runLog) < MaxAct
  /\ a # 0 => Len(hk.activatedChildren) < MaxAct
  /\ CommitState(FlushIteration_check(
                   HookBody([ St EXCEPT !.has[queue[index + 1]] = "null",
                                        !.runLog = Append(@, queue[index + 1]) ], e),
                   queue[index + 1]))
  /\ hk' = IF a = 0 THEN hk ELSE queueActivatedComponent(hk, a)
  /\ UNCHANGED << dvars, xHk >>

\* flushSchedulerQueue from the copies of the queues to resetSchedulerState()
HPost ==
  /\ pc = "post"
  /\ CommitState([ resetSchedulerState(St) EXCEPT !.pc = "hooks" ])
  /\ hk' = PostQueues(hk, St)
  /\ UNCHANGED << dvars, xHk >>

\* one iteration of the loop of callActivatedHooks
HActivated(e) ==
  /\ pc = "hooks" /\ hk.activatedQueue # << >>
  /\ e # 0 => hk.passes < MaxAct
  /\ CommitState(HookBody(St, e))
  /\ hk' = HookDestroys([ hk EXCEPT !.activatedQueue = Tail(@),
                                    !.log = Append(@, [ kind |-> "activated",
                                                        pos |-> 0,
                                                        w |-> Head(hk.activatedQueue),
                                                        destroyed |-> hk.destroyed ]) ],
                        e, 0)
  /\ UNCHANGED << dvars, xHk >>

\* one iteration of the loop of callUpdatedHooks
HUpdated(e, d) ==
  /\ pc = "hooks" /\ hk.activatedQueue = << >> /\ hk.i > 0
  /\ e # 0 => hk.passes < MaxAct
  /\ IF UpdatedEligible(hk, hk.updatedQueue[hk.i])
     THEN /\ CommitState(HookBody(St, e))
          /\ hk' = HookUpdatedCalled(hk, e, d)
     ELSE /\ e = 0 /\ d = 0
          /\ CommitState(St)
          /\ hk' = [ hk EXCEPT !.i = @ - 1 ]
  /\ UNCHANGED << dvars, xHk >>

\* flushSchedulerQueue returns to flushCallbacks
HDone ==
  /\ pc = "hooks" /\ hk.activatedQueue = << >> /\ hk.i = 0
  /\ CommitState([ St EXCEPT !.pc = "drain" ])
  /\ hk' = [ hk EXCEPT !.log = << >>, !.enq = << >>, !.updatedQueue = << >> ]
  /\ UNCHANGED << dvars, xHk >>

NextHooks ==
  \/ \E w \in W : HUpdate(w)
  \/ TimerFire
  \/ DrainStep
  \/ \E e \in RunEnqueues, a \in HookKeptAlive : HRun(e, a)
  \/ HPost
  \/ \E e \in HookEnqueues : HActivated(e)
  \/ \E e \in HookEnqueues, d \in HookDestroyed : HUpdated(e, d)
  \/ HDone

SpecHooks == InitHooks /\ [][NextHooks]_vars

(***************************************************************************)
(* The render of one component and the patch of its root (SpecRender).     *)
(* The component's element is the only child of the container Root; the    *)
(* render function returns a <div> with keyed <li> children, or throws;    *)
(* renderError, when the component has one, does the same.  A vnode is a   *)
(* record [src, v]: v the VNode and src where the object came from         *)
(* ("render", "renderError", "empty", and "previous" for the very object   *)
(* that vm._vnode holds).                                                  *)
(***************************************************************************)
MaxRenders == 3

RenderLists == { << >>, << 1 >>, << 1, 2 >>, << 2, 1 >> }

\* vnode.js createEmptyVNode(): a comment vnode with empty text
createEmptyVNode == [ VNode("", 0, << >>) EXCEPT !.isComment = TRUE ]

\* what the render function (or renderError) returns for the keys
RenderedRoot(keys) == VNode("div", 0, Render(keys, << >>))

\* util/error.js handleError(e, vm, info) in _render
renderHandleError(R, info) ==
  [ R EXCEPT !.exc = FALSE, !.handled = Append(@, info) ]

\* _render: currentRenderingInstance = vm; vnode = render.call(...)
render_call(R, outcome, keys) ==
  IF outcome = "throw"
  THEN [ R EXCEPT !.current = 1, !.exc = TRUE, !.threw = TRUE, !.vnode = [ src |-> "none" ] ]
  ELSE [ R EXCEPT !.current = 1, !.threw = FALSE,
                  !.vnode = [ src |-> "render", v |-> RenderedRoot(keys) ] ]

\* _render: vnode = vm.$options.renderError.call(...)
renderError_call(R, outcome, keys) ==
  IF outcome = "throw"
  THEN [ R EXCEPT !.exc = TRUE, !.renderError = "throw" ]
  ELSE [ R EXCEPT !.renderError = "ok",
                  !.vnode = [ src |-> "renderError", v |-> RenderedRoot(keys) ] ]

\* vnode = vm._vnode
renderPrevious(R) ==
  [ R EXCEPT !.vnode = IF R.prev.src = "none" THEN R.prev
                       ELSE [ R.prev EXCEPT !.src = "previous" ] ]

\* _render with no catch block around the call of renderError
renderError_rethrow(R) == R

\* _render: the catch block around the call of renderError
renderError_catch(R) ==
  IF R.exc THEN renderPrevious(renderHandleError(R, "renderError")) ELSE R

\* _render: the catch block after handleError(e, vm, `render`)
render_fallback(R, outcome, keys) ==
  IF ~isProduction /\ R.hasRenderError
  THEN renderError_catch(renderError_call(R, outcome, keys))
  ELSE renderPrevious(R)

\* _render: the catch block
render_catch(R, outcome, keys) ==
  IF R.exc THEN render_fallback(renderHandleError(R, "render"), outcome, keys) ELSE R

\* _render: the finally block
render_finally(R) == [ R EXCEPT !.current = 0 ]

\* _render: return an empty vnode when the result is not a VNode
render_normalize(R) ==
  IF R.exc \/ R.vnode.src # "none" THEN R
  ELSE [ R EXCEPT !.vnode = [ src |-> "empty", v |-> createEmptyVNode ] ]

\* Vue.prototype._render; the fields of R that record the call start empty
Vue_render(R, outcome, keys, errOutcome, errKeys) ==
  render_normalize(
    render_finally(
      render_catch(render_call([ R EXCEPT !.handled = << >>, !.renderError = "none" ],
                               outcome, keys),
                   errOutcome, errKeys)))

\* patchVnode(oldVnode, vnode, ...) of the root:  if (oldVnode === vnode) return
patchVnodeRoot(G, old, vnode) ==
  IF vnode.src = "previous" THEN [ G EXCEPT !.vn = old.v ]
  ELSE patchVnode(G, old.v, vnode.v, FALSE)

\* patch: oldVnode and vnode are not the same vnode; the new element is
\* created before the next sibling of the old one, which is removed
patchReplace(G, old, vnode) ==
  removeVnodes(createElm(G, vnode.v, Root, nextSibling(G, old.v.elm)), << old.v >>, 1, 1)

\* patch(oldVnode, vnode); the first patch creates the element in the container
patch(G, old, vnode) ==
  IF old.src = "none" THEN createElm(G, vnode.v, Root, 0)
  ELSE IF sameVnode(old.v, vnode.v) THEN patchVnodeRoot(G, old, vnode)
  ELSE patchReplace(G, old, vnode)

\* the real DOM held in the variables, with an empty log
GNow ==
  [ dom |-> dom, elmKey |-> elmKey, nextElm |-> nextElm, domLog |-> << >>,
    threw |-> threw, vn |-> UndefVnode, vns |-> << >> ]

\* vm._update(vnode) after the patch has left G: vm._vnode = vnode
Vue_update(R, G) ==
  [ R EXCEPT !.prev = [ src |-> R.vnode.src, v |-> G.vn ], !.before = R.prev,
             !.domBefore = dom, !.renders = @ + 1 ]

CommitRender(R, G) ==
  /\ rd' = Vue_update(R, G)
  /\ dom' = G.dom /\ elmKey' = G.elmKey /\ nextElm' = G.nextElm
  /\ domLog' = G.domLog /\ threw' = G.threw
  /\ UNCHANGED << rvars, oldCh, newCh, oldStartIdx, oldEndIdx, newStartIdx,
                  newEndIdx, oldKeyToIdx, removeOnly, dpc, removal, xRd >>

\* a propagated exception leaves the render watcher's getter before _update
CommitThrown(R) ==
  /\ rd' = [ R EXCEPT !.before = R.prev, !.domBefore = dom, !.renders = @ + 1 ]
  /\ domLog' = << >>
  /\ UNCHANGED << rvars, dom, elmKey, nextElm, threw, oldCh, newCh, oldStartIdx,
                  oldEndIdx, newStartIdx, newEndIdx, oldKeyToIdx, removeOnly, dpc,
                  removal, xRd >>

\* updateComponent after _render has left R
RenderUpdate(R) ==
  IF R.exc THEN CommitThrown(R) ELSE CommitRender(R, patch(GNow, rd.prev, R.vnode))

InitRender ==
  /\ HoldsState(Blank(TRUE, "none", "none"))
  /\ HoldsFrame(Frame(EmptyDom, Root, << >>, << >>, FALSE), "off")
  /\ tick = TickOff /\ note = NoteOff /\ hk = HkOff /\ hy = HyOff /\ ast = AstOff /\ cf = CfOff /\ tx = TxOff /\ rp = RpOff /\ pz = PzOff /\ ph = PhOff /\ gn = GnOff
  /\ \E b \in BOOLEAN : rd = [ RdOff EXCEPT !.hasRenderError = b ]

\* the render watcher's getter:  vm._update(vm._render(), hydrating)
RenderStep(outcome, keys, errOutcome, errKeys) ==
  /\ rd.renders < MaxRenders
  /\ RenderUpdate(Vue_render(rd, outcome, keys, errOutcome, errKeys))

NextRender ==
  \E outcome, errOutcome \in {"ok", "throw"}, keys, errKeys \in RenderLists :
    RenderStep(outcome, keys, errOutcome, errKeys)

SpecRender == InitRender /\ [][NextRender]_vars

(***************************************************************************)
(* Hydrating patches (SpecHydrate): patch(oldVnode, vnode, hydrating) on a *)
(* server-rendered element.  An element and a vnode are records [tag,      *)
(* kids]: the tag and the tags of the child nodes (children); the children *)
(* have no children and no vnode has data.  hy.log holds the diagnostics   *)
(* in the order they are emitted.                                          *)
(***************************************************************************)
MaxHydrations == 3

HyTags == {"div", "p"}

HyKids == { << >>, << "p" >>, << "p", "p" >>, << "div" >> }

HyNodes == [ tag : HyTags, kids : HyKids ]

\* assertNodeMatch(node, vnode) for elements with known tags
assertNodeMatch(nodeTag, vnodeTag) == vnodeTag = nodeTag

\* hydrate: the loop over children, from child i: childrenMatch
childrenMatch(kids, children) ==
  \A i \in 1..Len(children) :
    i <= Len(kids) /\ (isProduction \/ assertNodeMatch(kids[i], children[i]))

\* hydrate:  if (!childrenMatch || childNode) { ...; return false }
hydrate_mismatch(H, elm, vnode) ==
  IF ~isProduction /\ ~H.bailed
  THEN [ H EXCEPT !.ret = FALSE, !.bailed = TRUE, !.log = Append(@, "childNodes") ]
  ELSE [ H EXCEPT !.ret = FALSE ]

\* hydrate(elm, vnode, insertedVnodeQueue)
hydrate(H, elm, vnode) ==
  IF ~isProduction /\ ~assertNodeMatch(elm.tag, vnode.tag) THEN [ H EXCEPT !.ret = FALSE ]
  ELSE IF vnode.kids = << >> \/ elm.kids = << >> THEN [ H EXCEPT !.ret = TRUE ]
  ELSE IF childrenMatch(elm.kids, vnode.kids) /\ Len(elm.kids) <= Len(vnode.kids)
  THEN [ H EXCEPT !.ret = TRUE ]
  ELSE hydrate_mismatch(H, elm, vnode)

\* the first failed hydration of the session leaves its diagnostics in first
hydrationFailed(H) ==
  [ H EXCEPT !.failed = @ + 1, !.first = IF H.failed = 0 THEN H.log ELSE @ ]

\* patch with a real element and hydrating: after hydrate has returned
patch_hydrated(H) ==
  IF H.ret THEN H
  ELSE IF ~isProduction THEN hydrationFailed([ H EXCEPT !.log = Append(@, "bailing") ])
  ELSE hydrationFailed(H)

patch_hydrating(H, elm, vnode) == patch_hydrated(hydrate(H, elm, vnode))

InitHydrate ==
  /\ HoldsState(Blank(TRUE, "none", "none")) /\ DiffOff
  /\ tick = TickOff /\ note = NoteOff /\ hk = HkOff /\ rd = RdOff /\ ast = AstOff /\ cf = CfOff /\ tx = TxOff /\ rp = RpOff /\ pz = PzOff /\ ph = PhOff /\ gn = GnOff
  /\ hy = HyOff

\* a root is mounted on server-rendered markup
HydrateMount(elm, vnode) ==
  /\ hy.patches < MaxHydrations
  /\ hy' = patch_hydrating([ hy EXCEPT !.patches = @ + 1, !.elm = elm, !.vnode = vnode ],
                           elm, vnode)
  /\ UNCHANGED << rvars, dvars, xHy >>

NextHydrate == \E elm, vnode \in HyNodes : HydrateMount(elm, vnode)

SpecHydrate == InitHydrate /\ [][NextHydrate]_vars

(***************************************************************************)
(* The optimizer of the compiler (SpecStatic).  An AST node is a record:   *)
(* type (1 element, 2 expression text, 3 plain text), tag, the flags the   *)
(* parser sets (pre, hasBindings, if, for, and other for any key outside   *)
(* the static keys, such as else), children, blocks (the blocks of         *)
(* ifConditions after the first) and static ("undefined" until markStatic  *)
(* sets it to "true" or "false").  Tags: "div" is a platform reserved tag, *)
(* "comp" a component, "template" the built-in tag.  No node carries       *)
(* inline-template.                                                        *)
(***************************************************************************)
MaxChildren == 2

AstText(type) ==
  [ type |-> type, tag |-> "", pre |-> FALSE, hasBindings |-> FALSE, if |-> FALSE,
    for |-> FALSE, once |-> FALSE, other |-> FALSE, children |-> << >>,
    blocks |-> << >>, static |-> "undefined", staticRoot |-> "undefined",
    staticInFor |-> "undefined" ]

\* the element of a v-else branch
AstElse == [ AstText(1) EXCEPT !.tag = "div", !.other = TRUE ]

\* an element with one of the parser's flags (v-if comes with a v-else block;
\* v-once sets the key once, which is not one of the static keys)
AstElement(tag, flag, children) ==
  [ AstText(1) EXCEPT !.tag = tag, !.pre = (flag = "pre"),
                      !.hasBindings = (flag = "bind"), !.if = (flag = "if"),
                      !.for = (flag = "for"), !.once = (flag = "once"),
                      !.other = (flag = "once"),
                      !.blocks = IF flag = "if" THEN << AstElse >> ELSE << >>,
                      !.children = children ]

\* lists of at most n nodes of the set
AstLists(nodes, n) == UNION { [ 1..k -> nodes ] : k \in 0..n }

\* what the parser leaves under a v-pre element: plain text and elements
\* with no directive processed
RECURSIVE AstRaw(_)
AstRaw(node) ==
  /\ node.type # 2
  /\ ~node.pre /\ ~node.hasBindings /\ ~node.if /\ ~node.for /\ ~node.once
  /\ \A i \in DOMAIN node.children : AstRaw(node.children[i])

AstWellFormed(node) == node.pre => \A i \in DOMAIN node.children : AstRaw(node.children[i])

AstLeaves ==
  { AstText(2), AstText(3) }
    \cup { AstElement(tag, flag, << >>) : tag \in {"div", "comp"},
                                          flag \in {"plain", "bind", "if"} }

AstInner ==
  { n \in { AstElement(tag, flag, ch) : tag \in {"div", "comp", "template"},
                                        flag \in {"plain", "pre", "for", "if", "once"},
                                        ch \in AstLists(AstLeaves, MaxChildren) } :
      AstWellFormed(n) }

AstRoots ==
  AstInner
    \cup { n \in { AstElement(tag, flag, << c >>) : tag \in {"div", "comp"},
                                                    flag \in {"plain", "pre", "for"},
                                                    c \in AstInner } :
             AstWellFormed(n) }

isBuiltInTag(tag) == tag \in {"slot", "component"}

isPlatformReservedTag(tag) == tag \in {"div", "template"}

\* isStatic that does not look at node.for
isStaticNoFor(node, inTemplateFor) ==
  IF node.type = 2 THEN FALSE
  ELSE IF node.type = 3 THEN TRUE
  ELSE \/ node.pre
       \/ /\ ~node.hasBindings /\ ~node.if
          /\ ~isBuiltInTag(node.tag) /\ isPlatformReservedTag(node.tag)
          /\ ~inTemplateFor /\ ~node.other

\* isStatic(node); inTemplateFor is isDirectChildOfTemplateFor(node)
isStatic(node, inTemplateFor) ==
  IF node.type = 2 THEN FALSE
  ELSE IF node.type = 3 THEN TRUE
  ELSE \/ node.pre
       \/ /\ ~node.hasBindings /\ ~node.if /\ ~node.for
          /\ ~isBuiltInTag(node.tag) /\ isPlatformReservedTag(node.tag)
          /\ ~inTemplateFor /\ ~node.other

\* isDirectChildOfTemplateFor for the children of node, given its own
isDirectChildOfTemplateFor(node, inTemplateFor) ==
  node.tag = "template" /\ (node.for \/ inTemplateFor)

\* node.static = b
Mark(b) == IF b THEN "true" ELSE "false"

AllStatic(nodes) == \A i \in DOMAIN nodes : nodes[i].static = "true"

\* markStatic after its two loops have marked the children and the blocks
markStatic_set(node, static, children, blocks) ==
  [ node EXCEPT !.children = children, !.blocks = blocks,
                !.static = Mark(static /\ AllStatic(children) /\ AllStatic(blocks)) ]

RECURSIVE markStatic(_, _)
markStatic(node, inTemplateFor) ==
  IF node.type # 1 THEN [ node EXCEPT !.static = Mark(isStatic(node, inTemplateFor)) ]
  ELSE IF ~isPlatformReservedTag(node.tag) /\ node.tag # "slot"
  THEN [ node EXCEPT !.static = Mark(isStatic(node, inTemplateFor)) ]
  ELSE markStatic_set(
         node, isStatic(node, inTemplateFor),
         [ i \in DOMAIN node.children |->
             markStatic(node.children[i],
                        isDirectChildOfTemplateFor(node, inTemplateFor)) ],
         [ i \in DOMAIN node.blocks |-> markStatic(node.blocks[i], inTemplateFor) ])

\* a test for a static root that takes a single text child as well
isStaticRootAnyChild(node) == node.static = "true" /\ Len(node.children) > 0

\* markStaticRoots: the test for a static root
isStaticRoot(node) ==
  /\ node.static = "true" /\ Len(node.children) > 0
  /\ ~(Len(node.children) = 1 /\ node.children[1].type = 3)

\* markStaticRoots:  if (node.static || node.once) node.staticInFor = isInFor
markStaticInFor(node, isInFor) ==
  IF node.static = "true" \/ node.once
  THEN [ node EXCEPT !.staticInFor = Mark(isInFor) ]
  ELSE node

RECURSIVE markStaticRoots(_, _)

\* markStaticRoots from the test for a static root on
markStaticRoots_set(node, isInFor) ==
  IF isStaticRoot(node) THEN [ node EXCEPT !.staticRoot = "true" ]
  ELSE [ node EXCEPT
           !.staticRoot = "false",
           !.children = [ i \in DOMAIN node.children |->
                            markStaticRoots(node.children[i], isInFor \/ node.for) ],
           !.blocks = [ i \in DOMAIN node.blocks |->
                          markStaticRoots(node.blocks[i], isInFor) ] ]

markStaticRoots(node, isInFor) ==
  IF node.type = 1 THEN markStaticRoots_set(markStaticInFor(node, isInFor), isInFor)
  ELSE node

\* optimize(root, options): the two passes
optimize(root) == markStaticRoots(markStatic(root, FALSE), FALSE)

InitStatic ==
  /\ HoldsState(Blank(TRUE, "none", "none")) /\ DiffOff
  /\ tick = TickOff /\ note = NoteOff /\ hk = HkOff /\ rd = RdOff /\ hy = HyOff
  /\ cf = CfOff /\ tx = TxOff /\ rp = RpOff /\ pz = PzOff /\ ph = PhOff /\ gn = GnOff
  /\ \E root \in AstRoots : ast = [ at |-> "parsed", root |-> root ]

Optimize ==
  /\ ast.at = "parsed"
  /\ ast' = [ at |-> "optimized", root |-> optimize(ast.root) ]
  /\ UNCHANGED << rvars, dvars, xAst >>

NextStatic == Optimize

SpecStatic == InitStatic /\ [][NextStatic]_vars

(***************************************************************************)
(* compileToFunctions (SpecCompile).  A template is what compile makes of  *)
(* it: the render code, the static render codes and whether compile has    *)
(* collected errors.  A code is its text and whether new Function accepts  *)
(* it.  cf holds the cache of the compileToFunctions closure, and of its   *)
(* latest call the template, the warnings, what it returned, whether it    *)
(* was served from the cache and whether it threw.  Development build;     *)
(* options.delimiters, options.outputSourceRange, tips and a Content       *)
(* Security Policy are left out.                                           *)
(***************************************************************************)
MaxStatics == 2
MaxCompiles == 2

Codes == [ text : {"a"}, syntax : BOOLEAN ]

Templates ==
  [ render : Codes,
    staticRenderFns : UNION { [ 1..k -> Codes ] : k \in 0..MaxStatics },
    errors : BOOLEAN ]

noop == [ body |-> "noop" ]

\* a catch block that throws the error again
createFunction_rethrow(C, code) == [ C EXCEPT !.threw = TRUE ]

\* createFunction: the catch block
createFunction_catch(C, code) ==
  [ C EXCEPT !.fnGenErrors = Append(@, code), !.fn = noop ]

\* createFunction(code, fnGenErrors): C.fn is what it returns
createFunction(C, code) ==
  IF C.threw THEN C
  ELSE IF ~code.syntax THEN createFunction_catch(C, code)
  ELSE [ C EXCEPT !.fn = [ body |-> code.text ] ]

\* compiled.staticRenderFns.map(code => createFunction(code, fnGenErrors))
RECURSIVE createStatics(_, _, _)
createStatics_push(C, codes, i) ==
  IF C.threw THEN C
  ELSE createStatics([ C EXCEPT !.staticRenderFns = Append(@, C.fn) ], codes, i + 1)

createStatics(C, codes, i) ==
  IF i > Len(codes) THEN C
  ELSE createStatics_push(createFunction(C, codes[i]), codes, i)

\* res.render = createFunction(compiled.render, fnGenErrors)
createRender_set(C) == IF C.threw THEN C ELSE [ C EXCEPT !.render = C.fn ]

\* the warning after the functions have been built
warnFnGenErrors(C, compiled) ==
  IF ~isProduction /\ ~compiled.errors /\ C.fnGenErrors # << >> /\ ~C.threw
  THEN [ C EXCEPT !.log = Append(@, "Failed to generate render function") ]
  ELSE C

\* the warning after compile has returned
warnCompileErrors(C, compiled) ==
  IF ~isProduction /\ compiled.errors
  THEN [ C EXCEPT !.log = Append(@, "Error compiling template") ]
  ELSE C

\* compileToFunctions from compile on
compileToFunctions_build(compiled) ==
  warnFnGenErrors(
    createStatics(
      createRender_set(
        createFunction(
          warnCompileErrors(
            [ render |-> noop, staticRenderFns |-> << >>, fnGenErrors |-> << >>,
              fn |-> noop, log |-> << >>, threw |-> FALSE ],
            compiled),
          compiled.render)),
      compiled.staticRenderFns, 1),
    compiled)

Res(C) == [ render |-> C.render, staticRenderFns |-> C.staticRenderFns ]

\* compileToFunctions(template) when cache[key] is set
compileToFunctions_cached(F, template) ==
  [ F EXCEPT !.template = template, !.log = << >>, !.ret = F.cache[template],
             !.hit = TRUE, !.threw = FALSE, !.calls = @ + 1 ]

\* compileToFunctions(template) after the functions have been built
compileToFunctions_return(F, template, C) ==
  IF C.threw
  THEN [ F EXCEPT !.template = template, !.log = C.log, !.ret = "none",
                  !.hit = FALSE, !.threw = TRUE, !.calls = @ + 1 ]
  ELSE [ F EXCEPT !.cache = [ t \in DOMAIN F.cache \cup {template} |->
                                IF t = template THEN Res(C) ELSE F.cache[t] ],
                  !.template = template, !.log = C.log, !.ret = Res(C),
                  !.hit = FALSE, !.threw = FALSE, !.calls = @ + 1 ]

compileToFunctions(F, template) ==
  IF template \in DOMAIN F.cache THEN compileToFunctions_cached(F, template)
  ELSE compileToFunctions_return(F, template, compileToFunctions_build(template))

InitCompile ==
  /\ HoldsState(Blank(TRUE, "none", "none")) /\ DiffOff
  /\ tick = TickOff /\ note = NoteOff /\ hk = HkOff /\ rd = RdOff /\ hy = HyOff
  /\ ast = AstOff
  /\ cf = CfOff /\ tx = TxOff /\ rp = RpOff /\ pz = PzOff /\ ph = PhOff /\ gn = GnOff

CompileCall(template) ==
  /\ cf.calls < MaxCompiles
  /\ ~cf.threw
  /\ cf' = compileToFunctions(cf, template)
  /\ UNCHANGED << rvars, dvars, xCf >>

NextCompile == \E template \in Templates : CompileCall(template)

SpecCompile == InitCompile /\ [][NextCompile]_vars

(***************************************************************************)
(* A component whose template is <div>{{ b }}</div> (SpecText).  Watcher 3 *)
(* stands for its render watcher: its getter reads data.b once, and when   *)
(* the scheduler evaluates it the component renders and patches.  tx.G is  *)
(* the real DOM with the text of its text nodes, tx.vnode is vm._vnode;    *)
(* changes, renders and G.domLog count from the latest assignment made     *)
(* while nothing was queued; old, new and last are the texts and the DOM   *)
(* operations of the latest patch.  Each of data.a and data.b has one      *)
(* subscriber, so no Dep.notify is ever suspended by a synchronous flush.  *)
(***************************************************************************)
TextValues == {0, 1, undefined, null}

\* shared/util toString, the _s of the render helpers
toString(val) ==
  IF val = undefined \/ val = null THEN "" ELSE IF val = 0 THEN "0" ELSE "1"

\* vnode.js createTextVNode, the _v of the render helpers
createTextVNode(val) == [ VNode("undefined", 0, << >>) EXCEPT !.text = val ]

\* the render function of the template:  _c('div', [_v(_s(b))])
renderText(S) ==
  VNode("div", 0, << createTextVNode(toString(S.heap[Data].props["b"].val)) >>)

\* the empty document, with the text of its text nodes
EmptyTextDom ==
  [ f \in DOMAIN EmptyDom \cup {"text"} |->
      IF f = "text" THEN [ e \in ElmIds |-> "undefined" ] ELSE EmptyDom[f] ]

\* the text interpolation of a root vnode
TextOf(vnode) == vnode.children[1].text

\* vm._update after the first patch has created the element
TxMounted(G) ==
  [ at |-> "mounted", G |-> [ G EXCEPT !.domLog = << >> ], vnode |-> G.vn,
    changes |-> 0, renders |-> 0, before |-> TextOf(G.vn),
    old |-> TextOf(G.vn), new |-> TextOf(G.vn), last |-> << >> ]

\* vm._update after patch(prevVnode, vnode) has left G
TxPatched(T, G, vnode) ==
  [ T EXCEPT !.G = [ G EXCEPT !.domLog = T.G.domLog \o G.domLog ], !.vnode = G.vn,
             !.renders = @ + 1, !.old = TextOf(T.vnode), !.new = TextOf(vnode),
             !.last = G.domLog ]

\* updateComponent:  vm._update(vm._render())
TxUpdate(T, vnode) ==
  TxPatched(T, patch([ T.G EXCEPT !.domLog = << >> ], [ src |-> "render", v |-> T.vnode ],
                     [ src |-> "render", v |-> vnode ]),
            vnode)

\* the step that left S has evaluated the getter of the render watcher
TxRendered(T, S) == IF InSeq(3, S.evald) THEN TxUpdate(T, renderText(S)) ELSE T

\* nothing is queued and no flush is pending or running
TxQuiet == pc = "idle" /\ queue = << >> /\ ~waiting

\* the history of tx when user code makes n assignments that change data.b
TxChanged(T, n) ==
  IF TxQuiet
  THEN [ T EXCEPT !.changes = n, !.renders = 0, !.G.domLog = << >>,
                  !.before = TextOf(T.vnode) ]
  ELSE [ T EXCEPT !.changes = IF @ + n > 2 THEN 2 ELSE @ + n ]

CommitText(S, T) ==
  /\ CommitState(S)
  /\ tx' = TxRendered(T, S)
  /\ UNCHANGED << dvars, xTx >>

TextWatchers(as) ==
  NewWatcher(NewWatcher(NewWatcher(observe(Blank(as, "none", "none"), Ref(Data), TRUE).st)))

\* the component has been mounted: data observed, the watchers up to the
\* render watcher constructed, the element created in the container
InitText ==
  \E as \in BOOLEAN :
    /\ HoldsState(TextWatchers(as)) /\ DiffOff
    /\ tick = TickOff /\ note = NoteOff /\ hk = HkOff /\ rd = RdOff /\ hy = HyOff
    /\ ast = AstOff /\ cf = CfOff /\ rp = RpOff /\ pz = PzOff /\ ph = PhOff /\ gn = GnOff
    /\ tx = TxMounted(createElm(EmptyTextDom, renderText(TextWatchers(as)), Root, 0))

\* user code assigns data[f] = v
TxSet(f, v) ==
  /\ pc = "idle"
  /\ CommitText(reactiveSetter(St, Data, f, v),
                TxChanged(tx, IF f = "b" /\ heap[Data].props["b"].val # v THEN 1 ELSE 0))

\* vm.$forceUpdate()
TxForce ==
  /\ TxQuiet
  /\ CommitText(Watcher_update(St, 3), TxChanged(tx, 0))

TxFlushStep ==
  /\ pc = "flush" /\ Len(runLog) < MaxFlushSteps
  /\ CommitText(FlushIteration(St), tx)

NextText ==
  \/ \E f \in {"a", "b"}, v \in TextValues : TxSet(f, v)
  \/ TxForce
  \/ TimerFire
  \/ DrainStep
  \/ TxFlushStep
  \/ FlushEnd

SpecText == InitText /\ [][NextText]_vars

(***************************************************************************)
(* The root patch that replaces the old root (SpecReplace).  The old root  *)
(* is a vnode, or a real element (isRealElement) with no server-render     *)
(* marker or whose hydration failed, which patch turns into an empty vnode *)
(* at that element; it lies among up to MaxSiblings siblings on each side  *)
(* or has no parent.  leaveCb is oldElm._leaveCb; ancestors are the        *)
(* placeholder vnodes vnode.parent, vnode.parent.parent, ...  The vnodes   *)
(* have no data, so no module hook runs and removal is immediate.  The     *)
(* patch advances in three steps: createElm, the loop over the ancestors,  *)
(* the removal of the old vnode.                                           *)
(***************************************************************************)
MaxSiblings == 2
MaxAncestors == 2

RpTags == {"div", "p"}

\* the placeholder vnode of a component
Placeholder == VNode("vue-component", 0, << >>)

\* emptyNodeAt(elm): an empty vnode of the element's tag at the element
emptyNodeAt(vnode) == [ vnode EXCEPT !.children = << >>, !.hasData = TRUE ]

\* the siblings, the old root among them, rendered into the container
RpSiblings(before, oldVnode, after) ==
  [ i \in 1..before |-> VNode("li", i, << >>) ]
    \o << oldVnode >>
    \o [ i \in 1..after |-> VNode("li", before + i, << >>) ]

RpReady(G, before, real, vnode, leaveCb, n) ==
  [ at |-> "ready", G |-> [ G EXCEPT !.domLog = << >>, !.vn = UndefVnode, !.vns = << >> ],
    oldVnode |-> IF real THEN emptyNodeAt(G.vns[before + 1]) ELSE G.vns[before + 1],
    vnode |-> vnode, leaveCb |-> leaveCb,
    ancestors |-> [ i \in 1..n |-> Placeholder ],
    parentElm |-> parentNode(G, G.vns[before + 1].elm),
    was |-> G.dom ]

\* patch: createElm(vnode, insertedVnodeQueue, oldElm._leaveCb ? null : parentElm,
\* nodeOps.nextSibling(oldElm))
patch_createElm(G, oldVnode, vnode, leaveCb) ==
  createElm(G, vnode, IF leaveCb THEN 0 ELSE parentNode(G, oldVnode.elm),
            nextSibling(G, oldVnode.elm))

\* patch: the loop over vnode.parent:  ancestor.elm = vnode.elm
patch_ancestors(ancestors, vnode) ==
  [ i \in DOMAIN ancestors |-> [ ancestors[i] EXCEPT !.elm = vnode.elm ] ]

\* a patch that leaves the old element in the document
patch_keepOld(G, oldVnode, parentElm) == G

\* patch: if (isDef(parentElm)) removeVnodes([oldVnode], 0, 0)
patch_removeOld(G, oldVnode, parentElm) ==
  IF parentElm # 0 THEN removeVnodes(G, << oldVnode >>, 1, 1) ELSE G

InitReplace ==
  /\ HoldsState(Blank(TRUE, "none", "none")) /\ DiffOff
  /\ tick = TickOff /\ note = NoteOff /\ hk = HkOff /\ rd = RdOff /\ hy = HyOff
  /\ ast = AstOff /\ cf = CfOff /\ tx = TxOff /\ pz = PzOff /\ ph = PhOff /\ gn = GnOff
  /\ \E before, after \in 0..MaxSiblings, oldTag, tag \in RpTags, keys \in RenderLists,
        real, leaveCb, attached \in BOOLEAN, n \in 0..MaxAncestors :
       /\ real \/ oldTag # tag
       /\ ~attached => before = 0 /\ after = 0
       /\ rp = RpReady(IF attached
                       THEN addVnodes(EmptyDom, Root, 0,
                                      RpSiblings(before, VNode(oldTag, 0, << >>), after),
                                      1, before + after + 1)
                       ELSE addVnodes(EmptyDom, 0, 0, << VNode(oldTag, 0, << >>) >>, 1, 1),
                       before, real, VNode(tag, 0, Render(keys, << >>)), leaveCb, n)

RpCreated(R, G) == [ R EXCEPT !.at = "created", !.G = G, !.vnode = G.vn ]

\* the new subtree is created and inserted
RpCreate ==
  /\ rp.at = "ready"
  /\ rp' = RpCreated(rp, patch_createElm(rp.G, rp.oldVnode, rp.vnode, rp.leaveCb))
  /\ UNCHANGED << rvars, dvars, xRp >>

\* the new element is given to the ancestors
RpAncestors ==
  /\ rp.at = "created"
  /\ rp' = [ rp EXCEPT !.at = "propagated",
                       !.ancestors = patch_ancestors(rp.ancestors, rp.vnode) ]
  /\ UNCHANGED << rvars, dvars, xRp >>

\* the old vnode is removed and patch returns
RpRemove ==
  /\ rp.at = "propagated"
  /\ rp' = [ rp EXCEPT !.at = "done",
                       !.G = patch_removeOld(rp.G, rp.oldVnode, rp.parentElm) ]
  /\ UNCHANGED << rvars, dvars, xRp >>

NextReplace == RpCreate \/ RpAncestors \/ RpRemove

SpecReplace == InitReplace /\ [][NextReplace]_vars

(***************************************************************************)
(* The parser inside one parent element (SpecIf): the children of          *)
(* currentParent as the text nodes are pushed and the child elements are   *)
(* closed, in source order.  A child is [type, id, kind, text,             *)
(* ifConditions]: id is its position in the source, kind is "if", "elseif",*)
(* "else", "plain" or "text", ifConditions lists the ids of the blocks.    *)
(* pz.log holds the diagnostics, pz.closed the ids of the elements closed, *)
(* pz.last the latest closeElement: the element and the children before    *)
(* it.  The child elements are not forbidden, carry no slot-scope and are  *)
(* not inside v-pre; the root level (no currentParent) is left out.        *)
(***************************************************************************)
MaxItems == 4

ElKinds == {"plain", "if", "elseif", "else"}
Texts == {" ", "x"}

\* a text child
PzText(id, text) ==
  [ type |-> 3, id |-> id, kind |-> "text", text |-> text, ifConditions |-> << >> ]

\* processIf: a v-if element starts its ifConditions with itself
processIf(id, kind) ==
  [ type |-> 1, id |-> id, kind |-> kind, text |-> "",
    ifConditions |-> IF kind = "if" THEN << id >> ELSE << >> ]

\* addIfCondition(prev, {exp, block: el}) on the child at position i
addIfCondition(P, i, el) ==
  [ P EXCEPT !.children[i].ifConditions = Append(@, el.id) ]

\* findPrevElement that leaves the text nodes in the children
RECURSIVE findPrevElementKeep(_, _)
findPrevElementKeep(P, i) ==
  IF i = 0 THEN [ P EXCEPT !.prev = 0 ]
  ELSE IF P.children[i].type = 1 THEN [ P EXCEPT !.prev = i ]
  ELSE findPrevElementKeep(P, i - 1)

\* findPrevElement(parent.children): P.prev is the position of the element
\* returned (0: undefined); the children after it are popped
RECURSIVE findPrevElement(_, _)
findPrevElement(P, i) ==
  IF i = 0 THEN [ P EXCEPT !.prev = 0 ]
  ELSE IF P.children[i].type = 1 THEN [ P EXCEPT !.prev = i ]
  ELSE findPrevElement(
         [ P EXCEPT !.children = SubSeq(@, 1, i - 1),
                    !.log = IF ~isProduction /\ P.children[i].text # " "
                            THEN Append(@, << "text ignored", P.children[i].id >>)
                            ELSE @ ],
         i - 1)

\* processIfConditions after findPrevElement has left P
processIfConditions_prev(P, el) ==
  IF P.prev # 0 /\ P.children[P.prev].kind = "if" THEN addIfCondition(P, P.prev, el)
  ELSE IF ~isProduction
  THEN [ P EXCEPT !.log = Append(@, << "without corresponding v-if", el.id >>) ]
  ELSE P

processIfConditions(P, el) ==
  processIfConditions_prev(findPrevElement(P, Len(P.children)), el)

\* closeElement(element) with a currentParent: tree management
closeElement(P, el) ==
  IF el.kind \in {"elseif", "else"} THEN processIfConditions(P, el)
  ELSE [ P EXCEPT !.children = Append(@, el) ]

PzNow == [ children |-> pz.children, log |-> pz.log, prev |-> 0 ]

InitIf ==
  /\ HoldsState(Blank(TRUE, "none", "none")) /\ DiffOff
  /\ tick = TickOff /\ note = NoteOff /\ hk = HkOff /\ rd = RdOff /\ hy = HyOff
  /\ ast = AstOff /\ cf = CfOff /\ tx = TxOff /\ rp = RpOff /\ ph = PhOff /\ gn = GnOff
  /\ pz = [ at |-> "open", children |-> << >>, log |-> << >>, n |-> 0,
            closed |-> << >>, last |-> [ el |-> PzText(0, ""), before |-> << >> ] ]

\* chars(text): a text node is pushed to the children of currentParent
PzChars(text) ==
  /\ pz.at = "open" /\ pz.n < MaxItems
  /\ pz' = [ pz EXCEPT !.n = @ + 1, !.children = Append(@, PzText(pz.n + 1, text)),
                       !.last = [ el |-> PzText(pz.n + 1, text), before |-> pz.children ] ]
  /\ UNCHANGED << rvars, dvars, xPz >>

PzClosed(P, el) ==
  [ pz EXCEPT !.n = @ + 1, !.children = P.children, !.log = P.log,
              !.closed = Append(@, el), !.last = [ el |-> el, before |-> pz.children ] ]

\* the end tag of a child element: closeElement(element)
PzClose(kind) ==
  /\ pz.at = "open" /\ pz.n < MaxItems
  /\ pz' = PzClosed(closeElement(PzNow, processIf(pz.n + 1, kind)),
                    processIf(pz.n + 1, kind))
  /\ UNCHANGED << rvars, dvars, xPz >>

NextIf ==
  \/ \E text \in Texts : PzChars(text)
  \/ \E kind \in ElKinds : PzClose(kind)

SpecIf == InitIf /\ [][NextIf]_vars

(***************************************************************************)
(* parseHTML over a stream of tags (SpecHtml), with the web compiler       *)
(* options (expectHTML).  ph.stack is the tokenizer's open-tag stack (the  *)
(* tag names), ph.lastTag its top ("" when falsy), ph.cb the start and end *)
(* callbacks emitted, ph.els the element stack of the AST builder that     *)
(* receives them, ph.last the token handled last with the stack and the    *)
(* number of callbacks before it.  Attributes, text, comments and the      *)
(* plain-text elements (script, style, textarea) are left out; tag names   *)
(* are lower case.                                                         *)
(***************************************************************************)
MaxTokens == 4

HtmlTags == {"div", "p", "span", "br"}

isUnaryTag(tag) == tag = "br"
canBeLeftOpenTag(tag) == tag = "p"
isNonPhrasingTag(tag) == tag \in {"div", "p"}

\* options.start(tag, attrs, unary) of the AST builder
options_start(P, tag, unary) ==
  [ P EXCEPT !.cb = Append(@, [ kind |-> "start", tag |-> tag, unary |-> unary ]),
             !.els = IF unary THEN @ ELSE Append(@, tag) ]

\* options.end(tag) of the AST builder: stack.length -= 1 throws on an
\* empty stack
options_end(P, tag) ==
  IF P.els = << >> THEN [ P EXCEPT !.threw = TRUE ]
  ELSE [ P EXCEPT !.cb = Append(@, [ kind |-> "end", tag |-> tag, unary |-> FALSE ]),
                  !.els = SubSeq(@, 1, Len(@) - 1) ]

\* parseEndTag: the position of the nearest open tag of the same name (one
\* more than the index of the code; 0: none), or of the bottom of the stack
\* when no tag name is given
parseEndTag_pos(stack, tagName) ==
  IF tagName = "" THEN 1
  ELSE IF \E i \in DOMAIN stack : stack[i] = tagName
  THEN CHOOSE i \in DOMAIN stack :
         stack[i] = tagName /\ \A j \in DOMAIN stack : j > i => stack[j] # tagName
  ELSE 0

\* parseEndTag: the loop calling options.end from the top of the stack to pos
RECURSIVE parseEndTag_close(_, _, _)
parseEndTag_close(P, i, pos) ==
  IF i < pos THEN P
  ELSE parseEndTag_close(options_end(P, P.stack[i]), i - 1, pos)

\* parseEndTag after the loop, the stack left as it was
parseEndTag_keep(P, pos) ==
  [ P EXCEPT !.lastTag = IF pos - 1 = 0 THEN "" ELSE P.stack[pos - 1] ]

\* parseEndTag after the loop: stack.length = pos, lastTag
parseEndTag_cut(P, pos) ==
  [ P EXCEPT !.stack = SubSeq(@, 1, pos - 1),
             !.lastTag = IF pos - 1 = 0 THEN "" ELSE P.stack[pos - 1] ]

parseEndTag_at(P, tagName, pos) ==
  IF pos >= 1 THEN parseEndTag_cut(parseEndTag_close(P, Len(P.stack), pos), pos)
  ELSE IF tagName = "br" THEN options_start(P, tagName, TRUE)
  ELSE IF tagName = "p" THEN options_end(options_start(P, tagName, FALSE), tagName)
  ELSE P

parseEndTag(P, tagName) == parseEndTag_at(P, tagName, parseEndTag_pos(P.stack, tagName))

\* handleStartTag: the two auto-closing rules of expectHTML
handleStartTag_p(P, tagName) ==
  IF P.lastTag = "p" /\ isNonPhrasingTag(tagName) THEN parseEndTag(P, P.lastTag) ELSE P

handleStartTag_open(P, tagName) ==
  IF canBeLeftOpenTag(tagName) /\ P.lastTag = tagName THEN parseEndTag(P, tagName) ELSE P

\* handleStartTag: the push and the start callback
handleStartTag_push(P, tagName, unary) ==
  options_start(
    IF ~unary THEN [ P EXCEPT !.stack = Append(@, tagName), !.lastTag = tagName ] ELSE P,
    tagName, unary)

handleStartTag(P, tagName, unarySlash) ==
  handleStartTag_push(handleStartTag_open(handleStartTag_p(P, tagName), tagName),
                      tagName, isUnaryTag(tagName) \/ unarySlash)

PhNow ==
  [ stack |-> ph.stack, lastTag |-> ph.lastTag, cb |-> ph.cb, els |-> ph.els,
    threw |-> ph.threw ]

PhHandled(P, at, kind, tag) ==
  [ at |-> at, stack |-> P.stack, lastTag |-> P.lastTag, cb |-> P.cb, els |-> P.els,
    threw |-> P.threw, n |-> ph.n + 1,
    last |-> [ kind |-> kind, tag |-> tag, stack |-> ph.stack, ncb |-> Len(ph.cb) ] ]

InitHtml ==
  /\ HoldsState(Blank(TRUE, "none", "none")) /\ DiffOff
  /\ tick = TickOff /\ note = NoteOff /\ hk = HkOff /\ rd = RdOff /\ hy = HyOff
  /\ ast = AstOff /\ cf = CfOff /\ tx = TxOff /\ rp = RpOff /\ pz = PzOff /\ gn = GnOff
  /\ ph = [ at |-> "open", stack |-> << >>, lastTag |-> "", cb |-> << >>, els |-> << >>,
            threw |-> FALSE, n |-> 0,
            last |-> [ kind |-> "none", tag |-> "", stack |-> << >>, ncb |-> 0 ] ]

\* the loop of parseHTML meets a start tag
PhStart(tag, unarySlash) ==
  /\ ph.at = "open" /\ ph.n < MaxTokens /\ ~ph.threw
  /\ ph' = PhHandled(handleStartTag(PhNow, tag, unarySlash), "open", "start", tag)
  /\ UNCHANGED << rvars, dvars, xPh >>

\* the loop of parseHTML meets an end tag
PhEnd(tag) ==
  /\ ph.at = "open" /\ ph.n < MaxTokens /\ ~ph.threw
  /\ ph' = PhHandled(parseEndTag(PhNow, tag), "open", "end", tag)
  /\ UNCHANGED << rvars, dvars, xPh >>

\* the input is used up: the final parseEndTag() and the return
PhReturn ==
  /\ ph.at = "open" /\ ~ph.threw
  /\ ph' = PhHandled(parseEndTag(PhNow, ""), "done", "return", "")
  /\ UNCHANGED << rvars, dvars, xPh >>

NextHtml ==
  \/ \E tag \in HtmlTags : PhStart(tag, FALSE)
  \/ PhStart("div", TRUE)
  \/ \E tag \in HtmlTags : PhEnd(tag)
  \/ PhReturn

SpecHtml == InitHtml /\ [][NextHtml]_vars

(***************************************************************************)
(* generate (SpecGen): genElement over the optimized AST of a template.    *)
(* An element is a node of SpecStatic with the key of its v-for and the    *)
(* four *Processed flags; flags is the set of its directives among once,   *)
(* for, if and pre.  The code generated is a tuple headed by the helper    *)
(* ("_c", "_l", "?", "_m", "_o", "_t", "[]", "_e", "void 0").  The state   *)
(* of the generator is G: staticRenderFns, pre, onceId, the warnings and   *)
(* the log of the calls, each with the id of its element (root 1, child i  *)
(* of n 10n+i, v-else block of n 10n+9).  up carries what the code reads   *)
(* through el.parent: the parent's pre and the key of the nearest v-for    *)
(* ancestor.  Components, slot targets, attributes, text children and the  *)
(* transforms are left out.                                                *)
(***************************************************************************)
MaxGenChildren == 1

GenEl(tag, flags, key, blocks, children) ==
  [ type |-> 1, tag |-> tag, pre |-> "pre" \in flags, hasBindings |-> FALSE,
    if |-> "if" \in flags, for |-> "for" \in flags, once |-> "once" \in flags,
    other |-> ("once" \in flags \/ key # ""), children |-> children, blocks |-> blocks,
    static |-> "undefined", staticRoot |-> "undefined", staticInFor |-> "undefined",
    key |-> key, staticProcessed |-> FALSE, onceProcessed |-> FALSE,
    forProcessed |-> FALSE, ifProcessed |-> FALSE ]

\* the elements the parser builds with these directives: a key only with
\* v-for, a v-else block only with v-if, v-pre alone
GenEls(tags, childLists) ==
  { n \in { GenEl(tag, flags, key, blocks, ch) :
              tag \in tags, flags \in (SUBSET {"once", "for", "if"}) \cup {{"pre"}},
              key \in {"", "k"},
              blocks \in {<< >>, << GenEl("div", {}, "", << >>, << >>) >>,
                          << GenEl("div", {"once"}, "", << >>, << >>) >>},
              ch \in childLists } :
      /\ n.key # "" => n.for
      /\ n.blocks # << >> => n.if
      /\ AstWellFormed(n) }

GenLeaves == GenEls({"div"}, {<< >>}) \cup { GenEl("slot", {}, "", << >>, << >>) }

GenRoots == GenEls({"div", "template"}, AstLists(GenLeaves, MaxGenChildren))

RECURSIVE genElement(_, _, _, _)
RECURSIVE genStatic(_, _, _, _)
RECURSIVE genOnce(_, _, _, _)
RECURSIVE genIf(_, _, _, _)
RECURSIVE genIfConditions(_, _, _, _, _)
RECURSIVE genFor(_, _, _, _)
RECURSIVE genChildren(_, _, _, _)
RECURSIVE genChildren_map(_, _, _, _, _, _)

Called(G, fn, id, branch) ==
  [ G EXCEPT !.log = Append(@, [ fn |-> fn, id |-> id, branch |-> branch ]) ]

\* genElement with v-if tested before v-for
genElement_branchIfFirst(el, G) ==
  IF el.staticRoot = "true" /\ ~el.staticProcessed THEN "static"
  ELSE IF el.once /\ ~el.onceProcessed THEN "once"
  ELSE IF el.if /\ ~el.ifProcessed THEN "if"
  ELSE IF el.for /\ ~el.forProcessed THEN "for"
  ELSE IF el.tag = "template" /\ ~G.pre THEN "template"
  ELSE IF el.tag = "slot" THEN "slot"
  ELSE "element"

\* genElement: the chain of tests
genElement_branch(el, G) ==
  IF el.staticRoot = "true" /\ ~el.staticProcessed THEN "static"
  ELSE IF el.once /\ ~el.onceProcessed THEN "once"
  ELSE IF el.for /\ ~el.forProcessed THEN "for"
  ELSE IF el.if /\ ~el.ifProcessed THEN "if"
  ELSE IF el.tag = "template" /\ ~G.pre THEN "template"
  ELSE IF el.tag = "slot" THEN "slot"
  ELSE "element"

\* what the children of el read through their parent
GenUp(el, up) == [ pre |-> el.pre, key |-> IF el.for THEN el.key ELSE up.key ]

genElement_template(el, R) ==
  IF el.children = << >> THEN [ R EXCEPT !.code = << "void 0" >> ] ELSE R

genElement_slot(R) == [ R EXCEPT !.code = << "_t", @ >> ]

genElement_c(el, R) == [ R EXCEPT !.code = << "_c", el.tag, @ >> ]

genElement_do(el, id, up, G, b) ==
  IF b = "static" THEN genStatic(el, id, up, G)
  ELSE IF b = "once" THEN genOnce(el, id, up, G)
  ELSE IF b = "for" THEN genFor(el, id, up, G)
  ELSE IF b = "if" THEN genIf(el, id, up, G)
  ELSE IF b = "template" THEN genElement_template(el, genChildren(el, id, up, G))
  ELSE IF b = "slot" THEN genElement_slot(genChildren(el, id, up, G))
  ELSE genElement_c(el, genChildren(el, id, up, G))

genElement_pre(el, id, up, G) ==
  genElement_do(el, id, up, Called(G, "genElement", id, genElement_branch(el, G)),
                genElement_branch(el, G))

genElement(el, id, up, G) ==
  genElement_pre([ el EXCEPT !.pre = @ \/ up.pre ], id, up, G)

\* genStatic after the element has been generated: the push and the _m call
genStatic_push(el, originalPreState, R) ==
  [ code |-> << "_m", Len(R.G.fns), el.staticInFor = "true" >>,
    G |-> [ R.G EXCEPT !.fns = Append(@, R.code), !.pre = originalPreState ] ]

genStatic(el, id, up, G) ==
  genStatic_push(el, G.pre,
    genElement([ el EXCEPT !.staticProcessed = TRUE ], id, up,
               Called([ G EXCEPT !.pre = @ \/ el.pre ], "genStatic", id, "")))

genOnce_o(key, R) ==
  [ code |-> << "_o", R.code, R.G.onceId, key >>,
    G |-> [ R.G EXCEPT !.onceId = @ + 1 ] ]

genOnce_do(el, id, up, G) ==
  IF el.if /\ ~el.ifProcessed THEN genIf(el, id, up, G)
  ELSE IF el.staticInFor = "true"
  THEN IF up.key = ""
       THEN genElement(el, id, up,
                       IF ~isProduction THEN [ G EXCEPT !.warns = Append(@, id) ] ELSE G)
       ELSE genOnce_o(up.key, genElement(el, id, up, G))
  ELSE genStatic(el, id, up, G)

genOnce(el, id, up, G) ==
  genOnce_do([ el EXCEPT !.onceProcessed = TRUE ], id, up, Called(G, "genOnce", id, ""))

\* genIfConditions: genTernaryExp(condition.block)
genTernaryExp(el, id, up, G) ==
  IF el.once THEN genOnce(el, id, up, G) ELSE genElement(el, id, up, G)

genIfConditions_rest(R1, R2) == [ code |-> << "?", R1.code, R2.code >>, G |-> R2.G ]

genIfConditions_exp(el, id, up, i, R1) ==
  genIfConditions_rest(R1, genIfConditions(el, id, up, R1.G, i + 1))

\* genIfConditions over the conditions left: the first is the element
\* itself with its expression, the others are its v-else blocks
genIfConditions(el, id, up, G, i) ==
  IF i > 1 + Len(el.blocks) THEN [ code |-> << "_e" >>, G |-> G ]
  ELSE IF i = 1 THEN genIfConditions_exp(el, id, up, i, genTernaryExp(el, id, up, G))
  ELSE genTernaryExp(el.blocks[i - 1], 10 * id + 9, up, G)

genIf(el, id, up, G) ==
  genIfConditions([ el EXCEPT !.ifProcessed = TRUE ], id, up, Called(G, "genIf", id, ""), 1)

genFor_l(R) == [ R EXCEPT !.code = << "_l", @ >> ]

genFor(el, id, up, G) ==
  genFor_l(genElement([ el EXCEPT !.forProcessed = TRUE ], id, up,
                      Called(G, "genFor", id, "")))

genChildren_next(el, id, up, i, codes, R) ==
  genChildren_map(el, id, up, R.G, i + 1, Append(codes, R.code))

\* genChildren: children.map(c => genNode(c, state))
genChildren_map(el, id, up, G, i, codes) ==
  IF i > Len(el.children) THEN [ code |-> << "[]", codes >>, G |-> G ]
  ELSE genChildren_next(el, id, up, i, codes,
                        genElement(el.children[i], 10 * id + i, GenUp(el, up), G))

genChildren(el, id, up, G) ==
  IF el.children = << >> THEN [ code |-> << "undefined" >>, G |-> G ]
  ELSE IF Len(el.children) = 1 /\ el.children[1].for
          /\ el.children[1].tag \notin {"template", "slot"}
  THEN genElement(el.children[1], 10 * id + 1, GenUp(el, up), G)
  ELSE genChildren_map(el, id, up, G, 1, << >>)

\* new CodegenState(options)
CodegenState == [ fns |-> << >>, pre |-> FALSE, onceId |-> 0, warns |-> << >>, log |-> << >> ]

\* generate(ast, options)
generate(root) == genElement(root, 1, [ pre |-> FALSE, key |-> "" ], CodegenState)

InitGen ==
  /\ HoldsState(Blank(TRUE, "none", "none")) /\ DiffOff
  /\ tick = TickOff /\ note = NoteOff /\ hk = HkOff /\ rd = RdOff /\ hy = HyOff
  /\ ast = AstOff /\ cf = CfOff /\ tx = TxOff /\ rp = RpOff /\ pz = PzOff /\ ph = PhOff
  /\ \E root \in GenRoots :
       gn = [ at |-> "optimized", root |-> optimize(root), code |-> << >>,
              G |-> CodegenState ]

GnDone(R) == [ gn EXCEPT !.at = "done", !.code = R.code, !.G = R.G ]

\* generate(ast, options) of the compiler
Generate ==
  /\ gn.at = "optimized"
  /\ gn' = GnDone(generate(gn.root))
  /\ UNCHANGED << rvars, dvars, xGn >>

NextGen == Generate

SpecGen == InitGen /\ [][NextGen]_vars

(***************************************************************************)
(* Properties.                                                             *)
(***************************************************************************)
\* number of occurrences of x in the list s
Count(s, x) == Cardinality({ i \in 1..Len(s) : s[i] = x })

\* the watchers the scheduler still has to run: the whole queue outside a flush,
\* the part from index on during one (nothing once the loop has been left)
Pending == IF pc = "post" THEN << >> ELSE SubSeq(queue, index + 1, Len(queue))

\* the dep of field f of the data object
FieldDep(f) == heap[Data].props[f].dep

\* C1: a non-lazy, non-sync watcher that read a field in its latest run is, after
\* a mutation of that field, in the scheduler's queue exactly once (in sync mode:
\* or is the next one the suspended notify loop updates), however often its
\* dependencies were mutated before; the queue never holds a waiting watcher
\* twice, has[id] is set exactly for the waiting watchers, and a flush during
\* which nothing is enqueued calls run() exactly once for every watcher that was
\* in the queue when it began.
C1_QueuedOnceRunOnce ==
  [][ /\ \A f \in Keys, w \in W :
           ( /\ pc = "idle"
             /\ heap'[Data].props[f].val # heap[Data].props[f].val
             /\ watchers[w].active /\ Queued(w)
             /\ FieldDep(f) \in touched[w] )
           => Count(Pending', w) + Count(notifyRest', w) = 1
      /\ \A w \in W :
           /\ Count(Pending', w) <= 1
           /\ pc' # "post" => (has'[w] = "true" <=> Count(Pending', w) = 1)
      /\ (flushing' /\ Len(queue') = Cardinality(initialQ'))
           => /\ \A w \in W : Count(queue', w) = IF w \in initialQ' THEN 1 ELSE 0
              /\ runLog' = SubSeq(queue', 1, Len(runLog'))
              /\ pc' = "post" => runLog' = queue'
    ]_vars

\* C1 witness: field a, read by watcher 1, was mutated while watcher 1 already
\* waited in the queue: update() was called on its subscribers 1, 2 and 4, nothing
\* was enqueued, and watcher 1 is in the queue once.
C1_Witness ==
  /\ pc = "idle" /\ async /\ updd = {1, 2, 4} /\ enqd = << >>
  /\ watchers[1].active /\ Count(queue, 1) = 1

\* the watcher most recently passed to run() by the current flush
LastRun == runLog[Len(runLog)]

C3_OneFlushPending ==
  async =>
    /\ caller = "drain" /\ pc # "notify" /\ notifyRest = << >>
    /\ flushing => pc \in {"flush", "post"}
    /\ pc = "idle" => \A i \in 1..Len(enqd) : Count(evald, enqd[i]) = 0
    /\ Count(callbacks \o copies, "flush") <= 1
    /\ waiting <=> (Count(callbacks \o copies, "flush") = 1 \/ flushing)
    /\ ticks <= 1
    /\ enqd # << >> => (ticks = 1 <=> queue = enqd)
    /\ enqd = << >> => ticks = 0

\* C3 witness: a watcher was enqueued behind one already waiting and no second
\* nextTick(flushSchedulerQueue) was made.
C3_Witness ==
  /\ async /\ pc = "idle" /\ enqd # << >> /\ ticks = 0
  /\ Len(queue) = 2 /\ Count(callbacks, "flush") = 1

\* C4 as stated: within one flush no watcher is run more than
\* MAX_UPDATE_COUNT + 1 times, also when two watchers keep re-enqueuing each
\* other.
C4_RunsBounded ==
  \A w \in W : Count(runLog, w) <= MAX_UPDATE_COUNT + 1

\* the deps watcher w holds, as a set
DepSet(w) == { watchers[w].deps[i] : i \in 1..Len(watchers[w].deps) }

\* C5: between evaluations, for every active watcher W and every Dep D: W occurs
\* in D.subs once if D is in W.deps and not at all otherwise, W.deps holds no Dep
\* twice and agrees with depIds, W.newDeps and newDepIds are empty, and W.deps is
\* exactly the set of Deps whose depend() ran while W was Dep.target during W's
\* most recent get().
C5_SubsMatchDeps ==
  target = 0 =>
    \A w \in W :
      (watchers[w].created /\ watchers[w].active) =>
        /\ \A d \in 0..(depUid - 1) :
             Count(subs[d], w) = IF d \in DepSet(w) THEN 1 ELSE 0
        /\ \A i, j \in 1..Len(watchers[w].deps) :
             watchers[w].deps[i] = watchers[w].deps[j] => i = j
        /\ watchers[w].depIds = DepSet(w)
        /\ watchers[w].newDeps = << >> /\ watchers[w].newDepIds = {}
        /\ DepSet(w) = touched[w]

\* C5 witness: all four watchers are active and hold deps, watcher 1 has switched
\* to field b, and the dep of field a has the computed watcher and its reader as
\* subscribers.
C5_Witness ==
  /\ wuid = 4 /\ \A w \in W : watchers[w].active /\ watchers[w].deps # << >>
  /\ touched[1] = { FieldDep("flag"), FieldDep("b") }
  /\ subs[FieldDep("a")] = << 2, 4 >>

\* C6: once the latest run of watcher 1 (getter flag ? a : b) did not read field
\* f, watcher 1 is not in the subs of f's Dep, and a mutation of f neither calls
\* its update(), nor enqueues it, nor runs its getter or callback.
C6_StaleFieldSilent ==
  [][ \A f \in Keys :
        ( /\ watchers[1].created /\ watchers[1].active
          /\ FieldDep(f) \notin touched[1] )
        => /\ Count(subs[FieldDep(f)], 1) = 0
           /\ ( pc = "idle" /\ heap'[Data].props[f].val # heap[Data].props[f].val )
                => /\ 1 \notin updd' /\ Count(enqd', 1) = 0
                   /\ Count(evald', 1) = 0 /\ 1 \notin cbd'
                   /\ has'[1] = has[1] /\ Count(queue', 1) = Count(queue, 1)
    ]_vars

\* C6 witness: flag is 0, watcher 1 has re-run and reads b instead of a, and a
\* mutation of a has just notified the computed watcher and its reader only.
C6_Witness ==
  /\ pc = "idle" /\ watchers[1].active
  /\ heap[Data].props["flag"].val = 0
  /\ FieldDep("a") \notin touched[1] /\ FieldDep("b") \in touched[1]
  /\ updd = {2, 4}

\* C8: the computed watcher's getter is not run when it is created (it starts
\* dirty); a step evaluates it at most once and only if the step reads the
\* computed property and the watcher was dirty or was updated in that step; a
\* read while dirty evaluates it exactly once and a read while clean, with no
\* update, not at all; update() without a read only sets dirty; dirty is cleared
\* only by an evaluation and set only by update().
C8_LazyRecomputesOnRead ==
  [][ /\ (~watchers[Computed].created /\ watchers'[Computed].created)
           => Count(evald', Computed) = 0 /\ watchers'[Computed].dirty
      /\ watchers[Computed].created =>
           /\ Count(evald', Computed) <= 1
           /\ Count(evald', Computed) = 1
                => reads' >= 1 /\ (watchers[Computed].dirty \/ Computed \in updd')
           /\ (reads' >= 1 /\ watchers[Computed].dirty)
                => Count(evald', Computed) = 1
           /\ (reads' >= 1 /\ ~watchers[Computed].dirty /\ Computed \notin updd')
                => Count(evald', Computed) = 0
           /\ (Computed \in updd' /\ reads' = 0)
                => Count(evald', Computed) = 0 /\ watchers'[Computed].dirty
           /\ (watchers[Computed].dirty /\ Count(evald', Computed) = 0)
                => watchers'[Computed].dirty
           /\ watchers'[Computed].dirty
                => watchers[Computed].dirty \/ Computed \in updd'
    ]_vars

\* C8 witness: with its reader torn down, the computed watcher was left dirty by
\* a change of field a and has just been re-evaluated by a read of the computed
\* property from user code.
C8_Witness ==
  /\ pc = "idle" /\ reads = 1 /\ evald = << Computed >> /\ updd = {}
  /\ watchers[4].created /\ ~watchers[4].active
  /\ watchers[Computed].value = 1 /\ ~watchers[Computed].dirty

\* a flush iteration has just passed a torn-down watcher to run()
RanTornDown ==
  /\ pc \in {"flush", "post"} /\ runLog # << >>
  /\ ~watchers[LastRun].active

\* C9 as stated: update() on a torn-down watcher evaluates no getter, invokes no
\* callback and does not enqueue the watcher (nor, when it is the only update of
\* the step, schedule a flush); a torn-down watcher the flush reaches runs nothing.
C9_UpdateIgnored ==
  /\ \A w \in updd :
       (watchers[w].created /\ ~watchers[w].active)
       => /\ Count(evald, w) = 0 /\ w \notin cbd /\ Count(enqd, w) = 0
          /\ updd = {w} => ticks = 0
  /\ RanTornDown => evald = << >> /\ cbd = {}

\* C9 amended: no step evaluates the getter or invokes the callback of a
\* torn-down watcher that is not lazy; update() on it still puts it in the queue
\* (has[id] is set), and run() does nothing when the flush reaches it: no getter,
\* no callback, nothing enqueued.  update() on a torn-down lazy watcher still
\* sets dirty.
C9_TornDownRunsNothing ==
  /\ \A w \in W :
       (watchers[w].created /\ ~watchers[w].active)
       => /\ ~WLazy(w) => Count(evald, w) = 0 /\ w \notin cbd
          /\ (w \in updd /\ Queued(w)) => has[w] = "true"
          /\ (w \in updd /\ WLazy(w) /\ Count(evald, w) = 0) => watchers[w].dirty
  /\ RanTornDown => evald = << >> /\ cbd = {} /\ enqd = << >>

\* C9 witness: the flush has reached watcher 1, torn down while in the queue or
\* updated after its teardown, and the iteration ran nothing.
C9_Witness ==
  /\ RanTornDown /\ LastRun = 1 /\ evald = << >> /\ cbd = {}

\* the dep of the Observer that heap object o carries
ObDep(o) == observers[heap[o].ob].dep

\* the deps of the Observers carried by the elements of array arr and, for
\* elements that are arrays, by their elements in turn
RECURSIVE ElemDeps(_)
ElemDeps(arr) ==
  UNION { ( IF heap[ObjOf(e)].ob # 0 THEN { ObDep(ObjOf(e)) } ELSE {} )
            \cup ( IF heap[ObjOf(e)].kind = "array" THEN ElemDeps(ObjOf(e)) ELSE {} )
          : e \in { x \in { heap[arr].elems[i] : i \in 1..Len(heap[arr].elems) } :
                      IsRef(x) } }

\* the container Dep of the value of field f of the data object, with the deps
\* of its reactive elements when the value is an array
ValueDeps(f) ==
  LET o == ObjOf(heap[Data].props[f].val)
  IN { ObDep(o) } \cup ( IF heap[o].kind = "array" THEN ElemDeps(o) ELSE {} )

\* the value of field f of the data object is an object or array with an Observer
HoldsReactive(f) ==
  /\ IsRef(heap[Data].props[f].val)
  /\ heap[ObjOf(heap[Data].props[f].val)].ob # 0

\* user code has changed the elements or the set of keys of the container
ContainerChanged ==
  \/ heap'[Container].elems # heap[Container].elems
  \/ \E k \in Keys : heap'[Container].props[k].own # heap[Container].props[k].own

\* C7 as stated: a watcher whose getter has just read a reactive field that
\* holds a reactive object or array is subscribed to the field's Dep, to the
\* value's container Dep and, for arrays, recursively to the container Dep of
\* every reactive element.
C7_ValueDepsSubscribed ==
  \A w \in W, f \in Keys :
    ( /\ Count(evald, w) >= 1 /\ FieldDep(f) \in touched[w] /\ HoldsReactive(f) )
    => \A d \in { FieldDep(f) } \cup ValueDeps(f) :
         d \in touched[w] /\ Count(subs[d], w) = 1

\* C7 amended: the same for a field that is not shallow and whose childOb is set
\* (the value's Observer was found or made when the field was defined or last
\* assigned); and a watcher so subscribed to the container is in the queue after
\* user code has changed the container's elements through an intercepted array
\* method or set()/del(), or added or deleted a key with set()/del().
C7_ChildObSubscribed ==
  [][ /\ \A w \in W, f \in Keys :
           ( /\ Count(evald', w) >= 1 /\ FieldDep(f)' \in touched'[w]
             /\ ~heap'[Data].props[f].shallow /\ heap'[Data].props[f].childOb # 0 )
           => /\ HoldsReactive(f)'
              /\ ObDep(ObjOf(heap[Data].props[f].val))' = observers'[heap'[Data].props[f].childOb].dep
              /\ \A d \in { FieldDep(f)' } \cup ValueDeps(f)' :
                   d \in touched'[w] /\ Count(subs'[d], w) = 1
      /\ \A w \in W :
           ( /\ pc = "idle" /\ watchers[w].created /\ watchers[w].active /\ Queued(w)
             /\ heap[Container].ob # 0 /\ ObDep(Container) \in touched[w]
             /\ ContainerChanged )
           => Count(Pending', w) = 1
    ]_vars

\* C7 witness: the container is an array of two elements after a push, which has
\* put watcher 3 (it read field b) in the queue, and not watcher 1, which read
\* the shallow field a that holds the same array.
C7_Witness ==
  /\ pc = "idle" /\ heap[Container].kind = "array"
  /\ Len(heap[Container].elems) = 2
  /\ updd = {3} /\ enqd = << 3 >>
  /\ ObDep(Container) \in touched[3] /\ ObDep(Container) \notin touched[1]

\* C10: no two Observers were ever constructed for one object, the __ob__ of an
\* object is an Observer of that object, and observe() on an object that carries
\* an Observer returns that Observer and constructs none, whatever shouldObserve
\* is (as root data it only counts vmCount up).
C10_ObserveIdempotent ==
  /\ \A i, j \in 1..Len(observers) :
       observers[i].value = observers[j].value => i = j
  /\ \A o \in ObjIds :
       heap[o].ob # 0 =>
         /\ observers[heap[o].ob].value = o
         /\ \A r \in BOOLEAN :
              LET res == observe(St, Ref(o), r)
              IN /\ res.ob = heap[o].ob
                 /\ res.st.heap = heap
                 /\ res.st.observers =
                      IF r THEN [ observers EXCEPT ![heap[o].ob].vmCount = @ + 1 ]
                      ELSE observers

\* C10 witness: observe(container, true) has been called on the container, which
\* has carried its Observer since the data object was made reactive, and
\* shouldObserve is false.
C10_Witness ==
  /\ ~shouldObserve /\ heap[Container].ob # 0
  /\ observers[heap[Container].ob].vmCount = 1
  /\ Len(observers) = Cardinality({ o \in ObjIds : heap[o].ob # 0 })

\* the calls of the seven intercepted methods
PatchedCalls == ArrayCalls \cup { << "push", << v >> >> : v \in ElemValues }

\* observe() gives value an Observer in state S (when it has none)
Observable(S, value) ==
  /\ IsRef(value) /\ S.shouldObserve
  /\ S.heap[ObjOf(value)].kind \in {"object", "array"}
  /\ S.heap[ObjOf(value)].extensible /\ ~S.heap[ObjOf(value)].isVue

\* C11: each of push, pop, shift, unshift, splice, sort and reverse called on an
\* observed array returns what the native method returns and leaves the elements
\* the native method leaves, calls notify() on the array's container Dep once and
\* on no other Dep, and passes to observe() every element it inserted (push,
\* unshift: all arguments; splice: the arguments from index 2; nothing when it
\* inserted nothing), each of which carries an Observer afterwards when
\* observe() makes one for it.
C11_MutatorNotifiesContainerOnce ==
  ( pc = "idle" /\ heap[Container].kind = "array" /\ heap[Container].ob # 0 )
  => \A c \in PatchedCalls :
       LET S == ArrayCall(St, Container, c[1], c[2])
           ins == Inserted(c[1], c[2])
       IN /\ S.ret = NativeResult(Container, heap[Container].elems, c[1], c[2])
          /\ S.heap[Container].elems = NativeApply(St, heap[Container].elems, c[1], c[2])
          /\ S.notified = << ObDep(Container) >>
          /\ \A i \in 1..Len(ins) : ins[i] \in S.obsd
          /\ \A i \in 1..Len(ins) :
               Observable(St, ins[i]) => S.heap[ObjOf(ins[i])].ob # 0
          /\ ins = << >> => S.obsd = {}

\* C11 witness: splice(0, 1, spare) on the observed array has returned a new array
\* holding the removed element, notified the container Dep and given the inserted
\* object an Observer; watcher 3, which read the array, is in the queue.
C11_Witness ==
  /\ pc = "idle" /\ heap[Container].kind = "array" /\ heap[Container].ob # 0
  /\ ret.fresh /\ Len(ret.vals) = 1
  /\ notified = << ObDep(Container) >>
  /\ Ref(Spare) \in obsd /\ heap[Spare].ob # 0
  /\ enqd = << 3 >>

\* the values a write to a data field is tried with
WrittenValues == { 0, 1, NaN, Ref(Container), Ref(Spare) }

IsRootOrInstance(o) ==
  /\ heap[o].kind = "object"
  /\ heap[o].isVue \/ (heap[o].ob # 0 /\ observers[heap[o].ob].vmCount > 0)

\* C13 as stated: set and del on a component instance or on root data change
\* nothing (set returns val): the target is not mutated, no Dep is notified.
C13_RootSetDelIgnored ==
  pc = "idle" =>
    \A o \in ObjIds, k \in Keys, v \in WrittenValues :
      IsRootOrInstance(o) =>
        /\ set(St, o, k, v) = [ St EXCEPT !.ret = Scalar(v) ]
        /\ del(St, o, k) = St

\* C13 amended: del on a component instance or on root data changes nothing, and
\* so does set of a key the target does not have yet (set returns val).  set of
\* a key the target already has is the assignment target[key] = val: it stores a
\* different value and, when the property is reactive, notifies its Dep.
C13_RootAddDelIgnored ==
  pc = "idle" =>
    \A o \in ObjIds, k \in Keys, v \in WrittenValues :
      IsRootOrInstance(o) =>
        /\ del(St, o, k) = St
        /\ ~heap[o].props[k].own => set(St, o, k, v) = [ St EXCEPT !.ret = Scalar(v) ]
        /\ heap[o].props[k].own =>
             LET S == set(St, o, k, v)
             IN /\ S.ret = Scalar(v)
                /\ S.heap[o].props[k].val = v
                /\ S.notified = IF heap[o].props[k].reactive /\ v # heap[o].props[k].val
                                THEN << heap[o].props[k].dep >> ELSE << >>

\* C13 witness: set(container, "a", spare) on the container, which is root data
\* (vmCount 1) and has no key a, has returned the value and changed nothing.
C13_Witness ==
  /\ pc = "idle" /\ IsRootOrInstance(Container) /\ ~heap[Container].isVue
  /\ ~heap[Container].props["a"].own
  /\ ret = Scalar(Ref(Spare)) /\ notified = << >> /\ obsd = {} /\ updd = {}


(***************************************************************************)
(* The keyed diff (SpecDiff).                                              *)
(***************************************************************************)
LogIdx(kind, parent) ==
  { i \in 1..Len(domLog) : domLog[i].op = kind /\ domLog[i].parent = parent }

\* the real nodes created since the patch began
CreatedElms == { domLog[i].elm : i \in { j \in 1..Len(domLog) : domLog[j].op = "create" } }

\* the real nodes of the children of the root in the first render
OrigElms == { e \in ElmIds : elmKey[e] \in ChildKeys /\ e \notin CreatedElms }

OldKeys == { elmKey[e] : e \in OrigElms }
NewKeys == { newCh[i].key : i \in 1..Len(newCh) }

\* C14: once updateChildren has returned with removeOnly false, the real
\* children of the parent are the elements of the new list N in N's order
\* (each new vnode's elm at its position, carrying its key), and a key that
\* was also in the old list O is still on the real node it had in the first
\* render (the node was not created by the patch).
C14_ChildrenBecomeNewList ==
  (dpc = "done" /\ ~removeOnly) =>
    /\ ~threw
    /\ Len(dom[Root]) = Len(newCh)
    /\ \A i \in 1..Len(newCh) :
         /\ dom[Root][i] = newCh[i].elm
         /\ elmKey[dom[Root][i]] = newCh[i].key
         /\ newCh[i].key \in OldKeys => dom[Root][i] \in OrigElms

\* a patch that looked a key up in oldKeyToIdx, moved the node it found,
\* created a node and kept three children
C14_Witness ==
  /\ dpc = "done" /\ ~removeOnly
  /\ DOMAIN oldKeyToIdx # {}
  /\ \E i \in 1..Len(oldCh) : isUndefVnode(oldCh[i])
  /\ LogIdx("move", Root) # {}
  /\ LogIdx("create", Root) # {}
  /\ Len(dom[Root]) = MaxKey
\* the entries of the log for the children of the root whose node has key k
LogOfKey(kind, k) == { i \in LogIdx(kind, Root) : elmKey[domLog[i].elm] = k }

\* C15: once updateChildren has returned, it has created exactly one real
\* node for each key of N that is not in O and none for any other key, and
\* removed exactly one real node for each key of O that is not in N and none
\* for any other key; so the creates number |N - O|, the removes |O - N|.
C15_CreatesAndRemovesByKey ==
  dpc = "done" =>
    /\ \A k \in ChildKeys :
         /\ Cardinality(LogOfKey("create", k)) = IF k \in NewKeys \ OldKeys THEN 1 ELSE 0
         /\ Cardinality(LogOfKey("remove", k)) = IF k \in OldKeys \ NewKeys THEN 1 ELSE 0
    /\ Cardinality(LogIdx("create", Root)) = Cardinality(NewKeys \ OldKeys)
    /\ Cardinality(LogIdx("remove", Root)) = Cardinality(OldKeys \ NewKeys)

\* a patch that kept a key, created a node and removed two
C15_Witness ==
  /\ dpc = "done"
  /\ OldKeys \cap NewKeys # {}
  /\ Cardinality(LogIdx("create", Root)) = 1
  /\ Cardinality(LogIdx("remove", Root)) = 2

NewKeyList == [ i \in 1..Len(newCh) |-> newCh[i].key ]

\* C16: once updateChildren has returned for an N that is a permutation of
\* the n >= 1 keys of O, the log of the parent holds no create, no remove and
\* at most n - 1 moves; for O = [1,2,3] and N = [2,3,1] at most 2 moves.
C16_PermutationMovesOnly ==
  /\ (dpc = "done" /\ OldKeys = NewKeys /\ NewKeys # {}) =>
       /\ LogIdx("create", Root) = {}
       /\ LogIdx("remove", Root) = {}
       /\ Cardinality(LogIdx("move", Root)) <= Len(newCh) - 1
  /\ (dpc = "done" /\ OldKeys = {1, 2, 3} /\ NewKeyList = << 2, 3, 1 >>) =>
       Cardinality(LogIdx("move", Root)) <= 2

\* the rotation [1,2,3] -> [2,3,1] has been patched with a move
C16_Witness ==
  /\ dpc = "done" /\ ~removeOnly
  /\ OldKeys = {1, 2, 3} /\ NewKeyList = << 2, 3, 1 >>
  /\ LogIdx("move", Root) # {}
  /\ [ i \in 1..Len(dom[Root]) |-> elmKey[dom[Root][i]] ] = << 2, 3, 1 >>
\* vnodes that are no async placeholders: <input> and <li> elements and
\* comments, with or without a key, data, data.attrs and data.attrs.type
PlainVnodes ==
  { [ VNode(t, k, << >>) EXCEPT !.isComment = c, !.hasData = d[1],
                                !.hasAttrs = d[2], !.type = d[3] ] :
      t \in {"input", "li"}, k \in {0, 1}, c \in BOOLEAN,
      d \in { << FALSE, FALSE, "undefined" >>, << TRUE, FALSE, "undefined" >> }
            \cup { << TRUE, TRUE, ty >> : ty \in {"undefined", "text", "number", "checkbox"} } }

\* the vnodes sameVnode is applied to: these and the children being patched
SameVnodeInputs ==
  PlainVnodes \cup { newCh[i] : i \in 1..Len(newCh) }
              \cup { oldCh[i] : i \in { j \in 1..Len(oldCh) : ~isUndefVnode(oldCh[j]) } }

\* the type attribute of a vnode ("undefined": it has none)
TypeAttr(v) == IF v.hasData /\ v.hasAttrs THEN v.type ELSE "undefined"

\* the dimensions of the claim on which a and b differ
DimsDiffering(a, b) ==
  { dim \in {"key", "tag", "isComment", "data", "type"} :
      \/ dim = "key" /\ a.key # b.key
      \/ dim = "tag" /\ a.tag # b.tag
      \/ dim = "isComment" /\ a.isComment # b.isComment
      \/ dim = "data" /\ a.hasData # b.hasData
      \/ /\ dim = "type" /\ a.tag = "input" /\ b.tag = "input"
         /\ TypeAttr(a) # TypeAttr(b)
         /\ ~(isTextInputType(TypeAttr(a)) /\ isTextInputType(TypeAttr(b))) }

\* C17: for every pair of vnodes, sameVnode(a, b) is true when a and b have
\* equal key, tag, isComment and presence of data and (tag 'input') type
\* attributes that are identical or both text-like, and false when they
\* differ in exactly one of these.
C17_SameVnodeByDimensions ==
  \A a \in SameVnodeInputs, b \in SameVnodeInputs :
    /\ DimsDiffering(a, b) = {} => sameVnode(a, b)
    /\ Cardinality(DimsDiffering(a, b)) = 1 => ~sameVnode(a, b)
\* the real children of the root that the first render created, as they
\* stand now
OrigChildrenNow == SelectSeq(dom[Root], LAMBDA e : e \in OrigElms)

\* C18 as stated: with removeOnly = true no insertBefore repositions an
\* existing child anywhere in the patched tree (under the root or under any
\* of its descendants).
C18_NoMoveAnywhere ==
  removeOnly => \A i \in 1..Len(domLog) : domLog[i].op # "move"

\* C18 amended: with removeOnly = true no insertBefore repositions an
\* existing child of the patched root: the children of the first render that
\* remain under the root keep their relative order (the order of their
\* creation), only creates and removes having changed the root's list.
C18_NoMoveUnderRoot ==
  removeOnly =>
    /\ LogIdx("move", Root) = {}
    /\ \A i, j \in 1..Len(OrigChildrenNow) :
         i < j => OrigChildrenNow[i] < OrigChildrenNow[j]

\* a patch with removeOnly has matched a child through oldKeyToIdx and left
\* the root's children in another order than the new list's
C18_Witness ==
  /\ removeOnly /\ dpc = "done"
  /\ \E i \in 1..Len(oldCh) : isUndefVnode(oldCh[i])
  /\ [ i \in 1..Len(dom[Root]) |-> elmKey[dom[Root][i]] ] # NewKeyList
(***************************************************************************)
(* The removal of a vnode (SpecRm).                                        *)
(***************************************************************************)
\* the levels of the chain whose vnode shares rm: the removed vnode and the
\* nested component root vnodes, as long as each has data
RmLevels ==
  { l \in 1..Len(removal.chain) : \A m \in 1..l : removal.chain[m].hasData }

RmDetached == ~InSeq(RmElm, dom[Root])

RmRemovals == { i \in 1..Len(domLog) : domLog[i].op = "remove" /\ domLog[i].elm = RmElm }

\* C19: after removeAndInvokeRemoveHook of a vnode with data, every module
\* remove hook and the own remove hook (or the implicit call) of the vnode
\* and of every nested component root vnode with data either has called rm
\* or still holds it; the real node is detached exactly when all of them
\* have called rm, whatever the order, and it has been removed once then and
\* never before.  A vnode without data is detached by the call itself.
C19_DetachedAfterEveryCallback ==
  removal.at = "removed" =>
    /\ ~threw
    /\ IF removal.chain[1].hasData
       THEN /\ removal.called \cup removal.waiting = RmCallers(removal.mods, RmLevels)
            /\ removal.called \cap removal.waiting = {}
            /\ RmDetached <=> removal.waiting = {}
            /\ Cardinality(RmRemovals) = IF RmDetached THEN 1 ELSE 0
       ELSE /\ RmDetached
            /\ Cardinality(RmRemovals) = 1
            /\ removal.called = {} /\ removal.waiting = {}

\* a vnode with data and a nested component root with data, MaxMods module
\* hooks: every hook of both levels kept rm, all have fired, the node is
\* detached
C19_Witness ==
  /\ removal.at = "removed"
  /\ removal.mods = MaxMods /\ RmLevels = {1, 2}
  /\ removal.kept = Cardinality(RmCallers(MaxMods, {1, 2}))
  /\ removal.waiting = {}
  /\ RmDetached
(***************************************************************************)
(* Throwing user watchers (SpecErr).                                       *)
(***************************************************************************)
Handled(w, info) == \E i \in 1..Len(handled) : handled[i] = << w, info >>

\* C20: with user watchers whose getter or callback throws, no step ends with
\* an uncaught exception; a step that evaluated a throwing getter or invoked
\* a throwing callback has passed the error to handleError; when the loop of
\* a flush has ended every watcher that was in the queue at its start has
\* been run; and outside a flush the scheduler state is reset (not flushing,
\* index 0, waiting only with watchers queued for the next flush).
C20_UserWatcherErrorsContained ==
  /\ ~exc
  /\ \A w \in throws.get :
       (\E i \in 1..Len(evald) : evald[i] = w) => Handled(w, "getter")
  /\ \A w \in throws.cb : w \in cbd => Handled(w, "callback")
  /\ pc = "post" => \A w \in initialQ : \E i \in 1..Len(runLog) : runLog[i] = w
  /\ pc \notin {"flush", "post"} =>
       /\ ~flushing /\ index = 0
       /\ waiting => queue # << >>

\* the loop of a flush has ended: its first watcher's getter threw, and the
\* watcher run last had its callback throw
C20_Witness ==
  /\ pc = "post"
  /\ Len(runLog) >= 2
  /\ runLog[1] \in throws.get
  /\ runLog[Len(runLog)] \in throws.cb
  /\ Handled(runLog[Len(runLog)], "callback")
(***************************************************************************)
(* The scheduler alone (SpecQ).                                            *)
(***************************************************************************)
\* q[from..] is strictly ascending
AscendingFrom(q, from) ==
  \A i, j \in from..Len(q) : i < j => q[i] < q[j]

\* q2 is the queue with w inserted at a position p after the running
\* watcher's, behind every waiting watcher with a smaller id and before every
\* one with a larger id; nothing else has changed
InsertedAt(q2, w, p) ==
  /\ p \in (index + 2)..Len(q2)
  /\ q2[p] = w
  /\ Len(q2) = Len(queue) + 1
  /\ \A j \in 1..(p - 1) : q2[j] = queue[j]
  /\ \A j \in (p + 1)..Len(q2) : q2[j] = queue[j - 1]
  /\ \A j \in (index + 2)..(p - 1) : q2[j] < w
  /\ \A j \in (p + 1)..Len(q2) : q2[j] > w

\* the watchers queueWatcher would put in the queue now
Enqueueable == { w \in W : has[w] \in {"undefined", "null"} }

\* what the flush has run is the queue up to the current index
ProcessedIsRunLog ==
  /\ Len(runLog) = index + 1
  /\ \A i \in 1..(index + 1) : runLog[i] = queue[i]

SchedulerReset(S) ==
  /\ S.queue = << >> /\ S.index = 0
  /\ \A w \in W : S.has[w] = "undefined" /\ S.circular[w] = 0
  /\ ~S.waiting /\ ~S.flushing

\* queueWatcher(w) in S has started a batch of its own
FreshBatch(S, w) == S.queue = << w >> /\ S.waiting /\ S.has[w] = "true"

\* the watchers behind the current index
Waiting == { queue[i] : i \in (index + 2)..Len(queue) }

\* C27: in a development build a watcher that has re-enqueued itself in
\* every one of its runs of the flush (circular[w] counts all its runs) has
\* run at most MAX_UPDATE_COUNT + 1 times; when its count passes
\* MAX_UPDATE_COUNT the loop has ended with exactly MAX_UPDATE_COUNT + 1 runs
\* of it, the rest of flushSchedulerQueue resets queue, has, circular,
\* waiting and flushing without running the watchers still in the queue, and
\* a queueWatcher after that starts a fresh batch.
C27_SelfLoopStopsAfterLimit ==
  pc \in {"flush", "post"} =>
    \A w \in W :
      /\ circular[w] = Count(runLog, w) => Count(runLog, w) <= MAX_UPDATE_COUNT + 1
      /\ circular[w] > MAX_UPDATE_COUNT =>
           /\ pc = "post"
           /\ Count(runLog, w) = MAX_UPDATE_COUNT + 1
           /\ SchedulerReset(FlushFinish(St))
           /\ FlushFinish(St).runLog = runLog
           /\ \A x \in W : FreshBatch(queueWatcher(FlushFinish(St), x), x)

\* watcher 1 has run 101 times and the loop has broken with watcher 3, never
\* run in this flush, still in the queue
C27_Witness ==
  /\ pc = "post"
  /\ circular[1] = MAX_UPDATE_COUNT + 1
  /\ Count(runLog, 1) = MAX_UPDATE_COUNT + 1
  /\ 3 \in Waiting
  /\ Count(runLog, 3) = 0
(***************************************************************************)
(* nextTick called from a callback of the drain (SpecTick).                *)
(***************************************************************************)
\* the registrations made by callbacks while flushCallbacks was running them
NestedRegs == { i \in 1..Len(tick.reg) : tick.reg[i].draining }

\* flushCallbacks is still in the drain during which registration i was made
StillDraining(i) == pc = "drain" /\ tick.drains = tick.reg[i].at

\* C23 as stated: a callback registered through nextTick while flushCallbacks
\* is draining is appended to the drain in progress and executed within it,
\* and no new drain is scheduled (timerFunc is not called again).
C23_NestedRunsInSameDrain ==
  \A i \in NestedRegs :
    /\ i <= Len(tick.ran) => tick.ran[i].at = tick.reg[i].at
    /\ StillDraining(i) => timers = 0

\* C23: a callback registered through nextTick while flushCallbacks is
\* draining is pushed on the callbacks array that flushCallbacks has emptied,
\* not on the copy being drained; the first such registration calls timerFunc
\* again (one new drain is scheduled, pending is true), and the callback is
\* executed, in registration order, by the next drain.
C23_NestedRunsInNextDrain ==
  /\ \A i \in 1..Len(tick.ran) :
       tick.ran[i] = [ cb |-> tick.reg[i].cb, at |-> tick.reg[i].at + 1 ]
  /\ \A i \in NestedRegs :
       StillDraining(i) =>
         /\ i > Len(tick.ran)
         /\ \E j \in 1..Len(callbacks) : callbacks[j] = tick.reg[i].cb
         /\ Len(callbacks) + Len(tick.ran) + Len(copies) = Len(tick.reg)
         /\ pending /\ timers = 1

\* a callback registered by a callback of the first drain has been run by
\* the second drain
C23_Witness ==
  \E i \in NestedRegs :
    /\ tick.reg[i].at = 1
    /\ i <= Len(tick.ran)
    /\ tick.ran[i].at = 2
(***************************************************************************)
(* Dep.notify over a changing subscriber list (SpecNotify).                *)
(***************************************************************************)
\* the order in which a notify that began with subscriber list arr updates
AscendingIds(arr) == \A i, j \in 1..Len(arr) : i < j => arr[i] < arr[j]

\* C29: notify calls update() exactly once on every watcher that was in subs
\* when notify began, and on no other, in the registration order of subs (in
\* ascending id order when config.async is false), whatever the update()
\* calls remove from subs or add to it during the iteration.
C29_NotifyUpdatesSnapshot ==
  note.at \in {"loop", "done"} =>
    LET done == note.log \o note.rest
    IN /\ \A w \in W : Count(done, w) = Count(note.began, w)
       /\ Len(done) = Len(note.began)
       /\ async => done = note.began
       /\ ~async => AscendingIds(done)
       /\ note.at = "done" => note.rest = << >>

\* a notify has ended after updating a watcher that an earlier update() had
\* removed from subs, and without updating one that an update() added
C29_Witness ==
  /\ note.at = "done"
  /\ Len(note.log) >= 2
  /\ \E w \in W : InSeq(w, note.began) /\ ~InSeq(w, subs[note.d])
  /\ \E w \in W : ~InSeq(w, note.log) /\ InSeq(w, subs[note.d])
  /\ ~AscendingIds(note.log)
(***************************************************************************)
(* The target stack (SpecTarget).                                          *)
(***************************************************************************)
\* the top entry of the target stack, no target (0) when it is empty
TopTarget(stack) == IF stack = << >> THEN 0 ELSE stack[Len(stack)]

\* S has the stack and the target of the current state
SameTarget(S) == S.targetStack = targetStack /\ S.target = target

UpdatedCalls == { i \in 1..Len(hk.log) : hk.log[i].kind = "updated" }

\* C28: while the post-flush hooks run, the scheduler state is the reset
\* state plus what the hooks themselves have enqueued (a hook that enqueues a
\* watcher starts a fresh batch and one newly scheduled flush); no activated
\* hook runs after an updated hook; the updated hooks run in reverse order of
\* the queue, for exactly the watchers of the queue that are their
\* component's render watcher while the component is mounted and not
\* destroyed.
C28_PostFlushHooks ==
  pc = "hooks" =>
    /\ ~flushing /\ index = 0 /\ hk.activatedChildren = << >>
    /\ \A w \in W :
         /\ circular[w] = 0
         /\ Count(queue, w) = IF InSeq(w, hk.enq) THEN 1 ELSE 0
         /\ has[w] = IF InSeq(w, hk.enq) THEN "true" ELSE "undefined"
    /\ hk.enq = << >> => SchedulerReset(St)
    /\ hk.enq # << >> => waiting /\ pending /\ timers = 1 /\ callbacks = << "flush" >>
    /\ hk.activatedQueue # << >> => UpdatedCalls = {}
    /\ \A i \in UpdatedCalls :
         /\ \A j \in 1..Len(hk.log) :
              i < j => j \in UpdatedCalls /\ hk.log[j].pos < hk.log[i].pos
         /\ hk.updatedQueue[hk.log[i].pos] = hk.log[i].w
         /\ hk.log[i].w \in hk.render \cap hk.mounted
         /\ hk.log[i].w \notin hk.log[i].destroyed
    /\ \A p \in (hk.i + 1)..Len(hk.updatedQueue) :
         \/ \E i \in UpdatedCalls : hk.log[i].pos = p
         \/ hk.updatedQueue[p] \notin hk.render \cap hk.mounted
         \/ hk.updatedQueue[p] \in hk.destroyed

\* both passes are over: an activated hook, then the updated hooks of the
\* last two watchers of a queue of three, the first watcher's component
\* having been destroyed by a hook, and a hook has enqueued a watcher
C28_Witness ==
  /\ pc = "hooks" /\ hk.i = 0
  /\ Len(hk.updatedQueue) = 3
  /\ Len(hk.log) = 3
  /\ hk.log[1].kind = "activated"
  /\ hk.log[2].pos = 3 /\ hk.log[3].pos = 2
  /\ hk.updatedQueue[1] \in hk.destroyed \cap hk.render \cap hk.mounted
  /\ hk.enq # << >>
C22_OneDiagnosticPerSession ==
  hy.failed >= 1 => hy.log = hy.first

(***************************************************************************)
(* C24: the static marks after optimize.                                   *)
(***************************************************************************)
RECURSIVE AstNodes(_)
AstNodes(node) ==
  {node}
    \cup UNION { AstNodes(node.children[i]) : i \in DOMAIN node.children }
    \cup UNION { AstNodes(node.blocks[i]) : i \in DOMAIN node.blocks }

\* markStatic goes into the children and the blocks of the element
Walked(node) == isPlatformReservedTag(node.tag) \/ node.tag = "slot"

\* expression text is never static, and an element with v-if, v-for or
\* dynamic bindings is static only under v-pre
NoDynamicStatic(n) ==
  /\ n.type = 2 => n.static # "true"
  /\ n.type = 1 /\ n.static = "true" /\ (n.if \/ n.for \/ n.hasBindings) => n.pre

\* C24 as stated: after optimize(), every child and every v-else-if / v-else
\* block of every element marked static is marked static, expression text
\* is never marked static, and an element with v-if, v-for or dynamic
\* bindings is marked static only if it is v-pre.
C24_StaticSubtrees ==
  ast.at = "optimized" =>
    \A n \in AstNodes(ast.root) :
      /\ n.type = 1 /\ n.static = "true" => AllStatic(n.children) /\ AllStatic(n.blocks)
      /\ NoDynamicStatic(n)

\* C24 amended: the children and blocks of a static element are static when
\* the element is a platform reserved tag or a slot; a static element of any
\* other tag (a component) is v-pre and its children are left unmarked.
\* Expression text is never static, and an element with v-if, v-for or
\* dynamic bindings is static only if it is v-pre.
C24_StaticSubtreesOfWalked ==
  ast.at = "optimized" =>
    \A n \in AstNodes(ast.root) :
      /\ n.type = 1 /\ n.static = "true" /\ Walked(n) =>
           AllStatic(n.children) /\ AllStatic(n.blocks)
      /\ n.type = 1 /\ n.static = "true" /\ ~Walked(n) =>
           n.pre /\ \A i \in DOMAIN n.children : n.children[i].static = "undefined"
      /\ NoDynamicStatic(n)

\* a static root with a static element child that has a static child of its own
C24_Witness ==
  /\ ast.at = "optimized"
  /\ ast.root.static = "true" /\ Walked(ast.root)
  /\ \E i \in DOMAIN ast.root.children :
       /\ ast.root.children[i].type = 1 /\ ast.root.children[i].static = "true"
       /\ ast.root.children[i].children # << >>

(***************************************************************************)
(* C25: a Function constructor that throws inside compileToFunctions.      *)
(***************************************************************************)
\* the function compileToFunctions makes of a code
Built(code) == IF code.syntax THEN [ body |-> code.text ] ELSE noop

\* the codes of a template
CodesOf(template) ==
  {template.render}
    \cup { template.staticRenderFns[i] : i \in DOMAIN template.staticRenderFns }

\* the latest call has compiled a template of which new Function refuses a code
ConstructionFailed ==
  /\ cf.calls > 0 /\ ~cf.hit
  /\ \E code \in CodesOf(cf.template) : ~code.syntax

\* the latest call has returned the functions of its template, every refused
\* code as noop, and has put them in the cache
DegradedToNoop ==
  /\ ~cf.threw
  /\ cf.ret.render = Built(cf.template.render)
  /\ Len(cf.ret.staticRenderFns) = Len(cf.template.staticRenderFns)
  /\ \A i \in DOMAIN cf.template.staticRenderFns :
       cf.ret.staticRenderFns[i] = Built(cf.template.staticRenderFns[i])
  /\ cf.template \in DOMAIN cf.cache
  /\ cf.cache[cf.template] = cf.ret

Warned(msg) == \E i \in DOMAIN cf.log : cf.log[i] = msg

OneSetText(T) ==
  << [ op |-> "text", parent |-> T.vnode.elm, elm |-> T.vnode.children[1].elm ] >>

\* C31: once the flush that follows one change of the field has ended, the
\* render watcher has run exactly once and the DOM operations made are one
\* setTextContent on the existing text node and nothing else; a patch whose
\* new text equals the old text makes no DOM operation.
C31_OneRunOneSetText ==
  tx.at = "mounted" =>
    /\ TxQuiet /\ tx.changes = 1 =>
         /\ tx.renders = 1
         /\ tx.G.domLog = IF tx.before # TextOf(tx.vnode) THEN OneSetText(tx) ELSE << >>
         /\ tx.G.text[tx.vnode.children[1].elm] = toString(heap[Data].props["b"].val)
    /\ tx.old = tx.new => tx.last = << >>
    /\ tx.old # tx.new => tx.last = OneSetText(tx)

\* one change of the field has been rendered and the text node has a new text
C31_Witness ==
  /\ tx.at = "mounted" /\ TxQuiet /\ tx.changes = 1 /\ tx.renders = 1
  /\ tx.before = "0" /\ TextOf(tx.vnode) = "" /\ tx.G.domLog = OneSetText(tx)

(***************************************************************************)
(* C32: the root patch that replaces the old root.                         *)
(***************************************************************************)
\* the children of the old element's parent before the patch, up to and after
\* the old element
RpBefore == SubSeq(rp.was[rp.parentElm], 1, IndexIn(rp.oldVnode.elm, rp.was[rp.parentElm]))
RpAfter ==
  SubSeq(rp.was[rp.parentElm], IndexIn(rp.oldVnode.elm, rp.was[rp.parentElm]) + 1,
         Len(rp.was[rp.parentElm]))

\* the new element is known to every ancestor placeholder
RpPropagated == \A i \in DOMAIN rp.ancestors : rp.ancestors[i].elm = rp.vnode.elm

RECURSIVE RootsMarked(_, _)
RootsMarked(n, insideRoot) ==
  n.type = 1 =>
    /\ n.staticRoot = "true" =>
         /\ n.static = "true" /\ Len(n.children) > 0
         /\ ~(Len(n.children) = 1 /\ n.children[1].type = 3)
         /\ ~insideRoot
    /\ \A i \in DOMAIN n.children :
         RootsMarked(n.children[i], insideRoot \/ n.staticRoot = "true")
    /\ \A i \in DOMAIN n.blocks : RootsMarked(n.blocks[i], insideRoot)

\* staticInFor is true exactly for the static or v-once elements under a v-for
RECURSIVE InForMarked(_, _)
InForMarked(n, inFor) ==
  n.type = 1 =>
    /\ n.staticInFor = "true" <=> (n.static = "true" \/ n.once) /\ inFor
    /\ \A i \in DOMAIN n.children : InForMarked(n.children[i], inFor \/ n.for)
    /\ \A i \in DOMAIN n.blocks : InForMarked(n.blocks[i], inFor)

\* the same for the elements that are not inside a static root; those inside
\* one keep staticRoot and staticInFor undefined
RECURSIVE InForMarkedOutsideRoots(_, _, _)
InForMarkedOutsideRoots(n, inFor, insideRoot) ==
  n.type = 1 =>
    /\ ~insideRoot => (n.staticInFor = "true" <=> (n.static = "true" \/ n.once) /\ inFor)
    /\ insideRoot => n.staticInFor = "undefined" /\ n.staticRoot = "undefined"
    /\ \A i \in DOMAIN n.children :
         InForMarkedOutsideRoots(n.children[i], inFor \/ n.for,
                                 insideRoot \/ n.staticRoot = "true")
    /\ \A i \in DOMAIN n.blocks : InForMarkedOutsideRoots(n.blocks[i], inFor, insideRoot)

\* C33 as stated: after optimize(), staticRoot is true only for a static
\* element with at least one child that is not a single plain text node, no
\* element inside a staticRoot element is a staticRoot, and staticInFor is
\* true exactly for the static or v-once elements with a v-for ancestor.
C33_StaticRoots ==
  ast.at = "optimized" => RootsMarked(ast.root, FALSE) /\ InForMarked(ast.root, FALSE)

\* C33 amended: staticInFor is true exactly for the static or v-once
\* elements with a v-for ancestor that are not inside a staticRoot element;
\* the elements inside a staticRoot element are not visited.
C33_StaticRootsVisited ==
  ast.at = "optimized" =>
    RootsMarked(ast.root, FALSE) /\ InForMarkedOutsideRoots(ast.root, FALSE, FALSE)

\* under a v-for root a static root, with staticInFor true, holds an element
C33_Witness ==
  /\ ast.at = "optimized" /\ ast.root.for /\ Len(ast.root.children) = 1
  /\ ast.root.children[1].staticRoot = "true"
  /\ ast.root.children[1].staticInFor = "true"
  /\ \E i \in DOMAIN ast.root.children[1].children :
       ast.root.children[1].children[i].type = 1

(***************************************************************************)
(* C34: v-else and v-else-if elements in the parser.                       *)
(***************************************************************************)
\* the position of the last element of a list of children (0: none)
LastElement(children) ==
  IF \E i \in DOMAIN children : children[i].type = 1
  THEN CHOOSE i \in DOMAIN children :
         children[i].type = 1 /\ \A j \in DOMAIN children : j > i => children[j].type # 1
  ELSE 0

\* the ids of all blocks attached to the children
Attached == UNION { { pz.children[i].ifConditions[j] : j \in DOMAIN pz.children[i].ifConditions } :
                    i \in DOMAIN pz.children }

\* the latest element closed carried v-else or v-else-if and was dealt with
\* as the children before it require
LastFolded ==
  pz.last.el.kind \in {"elseif", "else"} =>
    /\ Len(pz.children) = LastElement(pz.last.before)
    /\ IF LastElement(pz.last.before) # 0
          /\ pz.last.before[LastElement(pz.last.before)].kind = "if"
       THEN /\ pz.children[Len(pz.children)].ifConditions
                 = Append(pz.last.before[LastElement(pz.last.before)].ifConditions,
                          pz.last.el.id)
            /\ SubSeq(pz.children, 1, Len(pz.children) - 1)
                 = SubSeq(pz.last.before, 1, Len(pz.children) - 1)
       ELSE /\ pz.children = SubSeq(pz.last.before, 1, Len(pz.children))
            /\ pz.last.el.id \notin Attached
            /\ pz.log[Len(pz.log)] = << "without corresponding v-if", pz.last.el.id >>

\* C34: an element with v-else or v-else-if is never among the children of
\* its parent; it is appended, in source order, to the ifConditions of the
\* nearest preceding element when that one carries v-if (the first entry of
\* ifConditions being that element), and otherwise dropped with a
\* diagnostic; the text nodes between the two are removed from the children.
C34_ElseFolded ==
  pz.at = "open" =>
    /\ \A i \in DOMAIN pz.children :
         /\ pz.children[i].kind \notin {"elseif", "else"}
         /\ pz.children[i].kind = "if" =>
              /\ pz.children[i].ifConditions[1] = pz.children[i].id
              /\ \A j \in 2..Len(pz.children[i].ifConditions) :
                   pz.children[i].ifConditions[j - 1] < pz.children[i].ifConditions[j]
         /\ pz.children[i].kind # "if" => pz.children[i].ifConditions = << >>
    /\ LastFolded

\* a v-else element has been attached after a v-else-if, across a text node
C34_Witness ==
  /\ pz.at = "open" /\ pz.last.el.kind = "else"
  /\ Len(pz.last.before) = 2 /\ pz.last.before[2].type = 3
  /\ Len(pz.children) = 1 /\ Len(pz.children[1].ifConditions) = 3

(***************************************************************************)
(* C35: the callbacks of parseHTML are properly nested.                    *)
(***************************************************************************)
\* the tags left open by a sequence of callbacks, << "bad" >> when an end
\* callback does not close the tag opened last
RECURSIVE OpenAfter(_, _, _)
OpenAfter(cbs, i, open) ==
  IF i > Len(cbs) THEN open
  ELSE IF cbs[i].kind = "start"
  THEN OpenAfter(cbs, i + 1, IF cbs[i].unary THEN open ELSE Append(open, cbs[i].tag))
  ELSE IF open # << >> /\ open[Len(open)] = cbs[i].tag
  THEN OpenAfter(cbs, i + 1, SubSeq(open, 1, Len(open) - 1))
  ELSE << "bad" >>

\* the callbacks emitted by the token handled last
LastEmitted == SubSeq(ph.cb, ph.last.ncb + 1, Len(ph.cb))

\* the token handled last was an end tag without a matching open tag
Unmatched ==
  ph.last.kind = "end" /\ \A i \in DOMAIN ph.last.stack : ph.last.stack[i] # ph.last.tag

\* C35: each end callback closes the tag opened last, the tags open by the
\* callbacks are those of the tokenizer's stack and as many as the elements
\* of the AST builder's stack, an end tag without a matching open tag emits
\* nothing unless it is </br> or </p>, and on return the stack is empty,
\* every tag opened having been closed.
C35_CallbacksNested ==
  ph.at # "off" =>
    /\ ~ph.threw
    /\ OpenAfter(ph.cb, 1, << >>) = ph.stack
    /\ Len(ph.els) = Len(ph.stack)
    /\ Unmatched /\ ph.last.tag \notin {"br", "p"} => LastEmitted = << >>
    /\ Unmatched => \A i \in DOMAIN LastEmitted : LastEmitted[i].tag = ph.last.tag
    /\ ph.at = "done" => ph.stack = << >>

\* parseHTML has returned after closing two tags left open, an unmatched
\* </p> having opened and closed an element before
C35_Witness ==
  /\ ph.at = "done" /\ Len(ph.last.stack) = 2
  /\ \E i \in DOMAIN ph.cb : i > 2 /\ ph.cb[i].kind = "end" /\ ph.cb[i].tag = "p"
                                   /\ ph.cb[i - 1].kind = "start" /\ ph.cb[i - 1].tag = "p"
                                   /\ ph.cb[i - 2].tag = "div"

(***************************************************************************)
(* C36: the dispatch of genElement.                                        *)
(***************************************************************************)
\* the positions of the log where genElement took branch b on element id
Dispatches(id, b) ==
  { i \in DOMAIN gn.G.log :
      gn.G.log[i].fn = "genElement" /\ gn.G.log[i].id = id /\ gn.G.log[i].branch = b }

GenIds == { gn.G.log[i].id : i \in DOMAIN gn.G.log }

\* the calls of genElement on element id
Entries(id) ==
  { i \in DOMAIN gn.G.log : gn.G.log[i].fn = "genElement" /\ gn.G.log[i].id = id }

\* the branches genElement takes on one element come in the priority order
InOrder(id) ==
  \A i, j \in Entries(id) :
    i < j => \/ gn.G.log[i].branch = "static"
             \/ gn.G.log[i].branch = "once" /\ gn.G.log[j].branch \notin {"static"}
             \/ gn.G.log[i].branch = "for" /\ gn.G.log[j].branch \notin {"static", "once"}
             \/ gn.G.log[i].branch = "if"
                  /\ gn.G.log[j].branch \notin {"static", "once", "for"}

\* the elements of the AST with their ids: the root and its children
GenNodes ==
  { << 1, gn.root >> } \cup { << 10 + i, gn.root.children[i] >> : i \in DOMAIN gn.root.children }

\* the positions of the log where fn was entered for element id
Calls(id, fn) == { i \in DOMAIN gn.G.log : gn.G.log[i].fn = fn /\ gn.G.log[i].id = id }

\* the conditional of element id is generated inside its loop callback
IfInsideFor(id) ==
  \A i \in Calls(id, "genFor") : \A j \in Calls(id, "genIf") : i < j

\* what holds of the dispatch whatever the directives
DispatchedOnce ==
  /\ \A id \in GenIds :
       /\ \A b \in {"static", "once", "for", "if"} : Cardinality(Dispatches(id, b)) <= 1
       /\ InOrder(id)
       /\ Cardinality(Entries(id)) <= 5
  /\ \A n \in GenNodes :
       /\ Cardinality(Calls(n[1], "genFor")) = IF n[2].for THEN 1 ELSE 0
       /\ Cardinality(Calls(n[1], "genIf")) = IF n[2].if THEN 1 ELSE 0
       /\ Dispatches(n[1], "static") # {} <=> n[2].staticRoot = "true"
       /\ Dispatches(n[1], "once") # {} <=> n[2].once

\* C36 (as stated): genElement takes on every element the first branch, in
\* the order staticRoot, v-once, v-for, v-if, bare template, slot, element,
\* whose test holds, takes each of the first four at most once per element,
\* generates the conditional of every element with v-for and v-if inside
\* the loop callback, and returns.
C36_DispatchOrder ==
  gn.at = "done" =>
    /\ DispatchedOnce
    /\ \A n \in GenNodes : n[2].for /\ n[2].if => IfInsideFor(n[1])

\* C36 (amended): as above, the conditional being inside the loop callback
\* for the elements with v-for and v-if that carry no v-once; with v-once
\* genOnce generates the conditional first, around the loop.
C36_DispatchOrderUnlessOnce ==
  gn.at = "done" =>
    /\ DispatchedOnce
    /\ \A n \in GenNodes :
         n[2].for /\ n[2].if =>
           IF n[2].once
           THEN \A i \in Calls(n[1], "genFor") : \A j \in Calls(n[1], "genIf") : j < i
           ELSE IfInsideFor(n[1])
    /\ gn.root.for /\ gn.root.if /\ ~gn.root.once =>
         gn.code[1] = "_l" /\ gn.code[2][1] = "?"
    /\ gn.root.for /\ gn.root.if /\ gn.root.once => gn.code[1] = "?"

\* code has been generated for a root with v-for and v-if over a child that
\* carries both too
C36_Witness ==
  /\ gn.at = "done" /\ gn.root.for /\ gn.root.if /\ ~gn.root.once
  /\ Len(gn.root.children) = 1 /\ gn.root.children[1].for /\ gn.root.children[1].if
  /\ Dispatches(11, "for") # {} /\ Dispatches(11, "if") # {}

(***************************************************************************)
(* C37: the callbacks of nextTick.                                         *)
(***************************************************************************)
\* the callbacks run are the first callbacks registered, in that order, and
\* those registered outside a drain run in the drain that follows
RanInOrder ==
  /\ Len(tick.ran) <= Len(tick.reg)
  /\ \A i \in 1..Len(tick.ran) :
       /\ tick.ran[i].cb = tick.reg[i].cb
       /\ tick.ran[i].at = tick.reg[i].at + 1

\* timerFunc is called at most once between the starts of two drains
OneTimerPerDrain ==
  \A i, j \in 1..Len(tick.timerAt) : tick.timerAt[i] = tick.timerAt[j] => i = j

\* C37: every callback passed to nextTick is invoked, once and in the order
\* of registration, also after a callback that threw, and timerFunc is
\* called at most once between two consecutive drains.
C37_CallbacksRunOnce ==
  /\ [](RanInOrder /\ OneTimerPerDrain)
  /\ \A i \in 1..MaxTicks : [](Len(tick.reg) >= i => <>(Len(tick.ran) >= i))

\* a callback has run after one that threw, in the same drain
C37_Witness ==
  \E i \in 2..Len(tick.ran) :
    /\ tick.ran[i - 1].cb = "throw" /\ tick.ran[i].cb = "leaf"
    /\ tick.ran[i - 1].at = tick.ran[i].at
    /\ Len(handled) > 0

(***************************************************************************)
(* C38: a watcher torn down is subscribed to no dep.                       *)
(***************************************************************************)
\* the deps whose subs hold watcher w
SubscribedTo(w) == { d \in DOMAIN subs : InSeq(w, subs[d]) }

\* C38: a watcher that has been torn down (active false) is in the subs of
\* no dep, also when it is evaluated again after the teardown.
C38_TornDownUnsubscribed ==
  \A w \in W : watchers[w].created /\ ~watchers[w].active => SubscribedTo(w) = {}

(***************************************************************************)
(* C39: the scheduler after an exception left flushSchedulerQueue.         *)
(***************************************************************************)
\* a call of flushSchedulerQueue is waiting in the callbacks of nextTick
FlushPending == InSeq("flush", callbacks)

\* C39: while no flush is pending or running, neither waiting nor flushing is
\* set (so a watcher handed to queueWatcher gets a flush that runs it), also
\* after the getter of a watcher without options.user threw out of
\* flushSchedulerQueue.
C39_SchedulerNotStuck ==
  pc = "idle" /\ ~FlushPending => ~waiting /\ ~flushing

(***************************************************************************)
(* C40: the updated hook within one flush.                                 *)
(***************************************************************************)
\* the calls of the updated hook of component w by the flush in progress
UpdatedCallsOf(w) ==
  { i \in DOMAIN hk.log : hk.log[i].kind = "updated" /\ hk.log[i].w = w }

\* C40: within one flush the updated hook of a component is invoked at most
\* once, also when its render watcher ran more than once in that flush.
C40_UpdatedOncePerFlush ==
  \A w \in W : Cardinality(UpdatedCallsOf(w)) <= 1

====
